---- MODULE Spec2Model ----
(***************************************************************************)
(* dzsa-sync: the per-port sync workers, the ifconfig IP-detection loop,   *)
(* the trigger channels that connect them, and the servers store.          *)
(*                                                                         *)
(* Sources: cmd/dzsasync main (main, onIPChanged, runPortWorker, syncOnce),*)
(* internal/ifconfig (Client.Run, GetAddress, SetAddress),                 *)
(* internal/servers (Store.New/Set/Get/GetAll), model (Result, Mods).      *)
(*                                                                         *)
(* Time is not measured.  A time.Ticker is modelled by its contract: it    *)
(* fires when a period has elapsed since it was created, last fired or was *)
(* reset, and (synchronous timer channels, the behaviour of the Go version *)
(* the module's tool directives require) a tick that came due before       *)
(* Reset is never received after it.                                       *)
(***************************************************************************)
EXTENDS Integers, Sequences, FiniteSets, TLC

(***************************************************************************)
(* Bounds of the model.                                                    *)
(***************************************************************************)
\* Number of detection calls (the initial fetch included) the ifconfig loop
\* makes in the specifications that record every call.
MaxProbes == 3
\* The count of sends on one trigger channel since its last receive is
\* recorded up to this number.
MaxSends == 2
\* Number of dzsa.Query calls one worker makes in the specification that
\* records every call.
MaxQueries == 2
\* Number of SetAddress calls a client of the address cache makes.
MaxSets == 3
\* Number of []Mods backing arrays a client of the store allocates.
MaxAllocs == 2
\* Number of servers a configuration file under validation lists.
MaxServers == 2

(***************************************************************************)
(* Program constants.                                                      *)
(***************************************************************************)
\* make(chan struct{}, 1): the buffer of every trigger channel.
TriggerCap == 1

\* The server ports a configuration file can list (cfg.Ports), in its order.
TwoPorts == <<1000, 2000>>
OnePort == <<1000>>

\* The empty string: "no address".
NoIP == ""
\* Addresses ifconfig.net can report.
DetectableIPs == {"1.1.1.1", "2.2.2.2"}
\* The external_ip of the configuration file, when it is set.
StaticIP == "10.0.0.1"

\* A nil []Mods slice.  A non-nil slice is the index of its backing array in
\* the heap and its length.
NilSlice == [arr |-> 0, len |-> 0]

\* Pointers to a model.Result: nil, or the address of a value v.
Nil == [nil |-> TRUE]
Ptr(v) == [nil |-> FALSE, v |-> v]

\* The result of a function that has no result parameters.
NoResult == "<none>"

VARIABLES
  cfg,          \* config.Config: DetectIP, ExternalIP, Ports
  address,      \* ifconfig.Client.address (guarded by mu)
  cancelled,    \* signalCtx.Done() is closed
  mainPC,       \* position of main
  ifPC,         \* position of ifconfig.Client.Run
  ifIdx,        \* onIPChanged: index of the next trigger channel of the range loop
  triggerChans, \* number of elements buffered in each trigger channel
  wPC,          \* position of each runPortWorker
  wCause,       \* which select case (or the startup call) started the current syncOnce
  wIP,          \* syncOnce's local ip
  inFlight,     \* history: per worker, the syncOnce calls entered and not yet returned
  tickC,        \* a tick of the worker's ticker.C is ready to be received
  byPort,       \* servers.Store.byPort
  track,        \* which histories this run records (fixed by the initial state)
  players,      \* the player counts the directory service reports (fixed)
  probeLog,     \* history "log": outcome of every completed detection call, in order
  cbLog,        \* history "log": every onChanged call, in order
  want,         \* history "want": want[0] is the address of the latest successful
                \*   detection; want[i] is the same for a worker that has a trigger
                \*   buffered or is answering one, and NoIP for any other worker
  stale,        \* history "stale": a change was detected after the worker's last GetAddress
  sentSince,    \* history "sends": sends attempted on a channel since its last receive
  qLog,         \* history "queries": per worker, the outcome of every completed
                \*   dzsa.Query call, in order
  fullSince,    \* history "period": a full period has elapsed since the worker's
                \*   last trigger sync returned
  heap,         \* the backing arrays of the []Mods slices allocated so far
  callerR,      \* a model.Result variable r of a client of the store
  got,          \* what the latest store.Get(port) returned
  lastSet,      \* history "ops": the port and the nil-ness of the result of the
                \*   latest store.Set call of the client
  gotSnap,      \* history "reader": the full content of the value got points to,
                \*   as Get returned it and the reader's own writes changed it since
  setSnap,      \* history: per port, the full content of r at the latest Set that stored it
  tainted,      \* history: ports whose stored value had an element of its mods
                \*   array overwritten after that Set
  setLog,       \* history: the arguments of the SetAddress calls, in order
  setRet,       \* what the latest SetAddress call returned to its caller
  gotAddr,      \* what the latest GetAddress call of the cache's client returned
  resp,         \* the latest request to the HTTP API and the response written to it
  gauge,        \* the server_player_count gauge: the last value recorded for
                \*   each value of its "server" attribute
  gaugeLog,     \* history "queries": per worker, the arguments of every
                \*   RecordServerPlayerCount call it made, in order
  valIn,        \* the config.Config that yaml.Unmarshal filled for NewFromFile
  valErr,       \* the error c.Validate() returned for it
  apiPC,        \* position of the goroutine that runs apiServer.ListenAndServe
  recorder,     \* the clients were given an HTTPRecorder (c.recorder != nil)
  requestCount, \* the request_count counter: its value for each attribute set
  requestLatency, \* the request_latency_seconds histogram: the number of
                \*   durations recorded for each attribute set
  reqLog        \* history: every call of Query and Get, in order, with what
                \*   the network did and the RecordRequest calls it made

vars == <<cfg, address, cancelled, mainPC, ifPC, ifIdx, triggerChans, wPC, wCause,
          wIP, tickC, byPort, track, players, probeLog, cbLog, want, stale,
          sentSince, fullSince, heap, callerR, got, setSnap, tainted, setLog,
          setRet, gotAddr, gotSnap, lastSet, qLog, resp, valIn, valErr, gauge, gaugeLog, inFlight,
          apiPC, recorder, requestCount, requestLatency, reqLog>>

\* NewFromFile has returned before any goroutine is started.
configVars == <<valIn, valErr>>
fixedVars == <<cfg, track, players, configVars>>
\* The metrics the workers record.
metricsVars == <<gauge, gaugeLog>>
\* The goroutine of the API server.
serverVars == <<apiPC>>
\* The HTTP request metrics of the two clients; they are followed in
\* RequestSpec, where the clients are called on their own.
requestVars == <<recorder, requestCount, requestLatency, reqLog>>
\* The state of the clients that call the store and the address cache directly.
storeClientVars == <<heap, callerR, got, setSnap, tainted, gotSnap, lastSet>>
cacheClientVars == <<setLog, setRet, gotAddr>>
apiVars == <<resp>>
clientVars == <<storeClientVars, cacheClientVars, apiVars, requestVars>>
\* The state of the running program other than the store and the cache.
programVars == <<cfg, track, players, cancelled, mainPC, ifPC, ifIdx, triggerChans,
                 wPC, wCause, wIP, tickC, probeLog, cbLog, want, stale, sentSince,
                 fullSince, qLog, configVars, metricsVars, inFlight, serverVars>>

\* cfg.Ports, and one worker (goroutine, trigger channel) per index of it.
Ports == cfg.Ports
Workers == 1..Len(cfg.Ports)
\* Every worker index a configuration of the model can have.
AllWorkers == 1..Len(TwoPorts)
mainVars == <<mainPC>>
ifVars == <<ifPC, ifIdx, probeLog, cbLog>>
chanVars == <<triggerChans, sentSince>>
workerVars == <<wPC, wCause, wIP, inFlight>>

\* A history is updated only in the runs that record it.
Rec(name, new, old) == IF name \in track THEN new ELSE old

(***************************************************************************)
(* model.Result, as the directory service answers a Query for ip:port: the *)
(* name it reports stands for the port asked about, the player count is    *)
(* the service's, the mods list is empty.                                  *)
(***************************************************************************)
\* The player counts the directory service can report.
PlayerCounts == {0, 1}

\* What a dzsa.Query call came back with: an error, or a response whose
\* result reports n players.
QueryFailed == [err |-> TRUE, players |-> 0]
QueryOK(n) == [err |-> FALSE, players |-> n]

QueryResult(port, n) ==
  [Name    |-> port,
   Players |-> n,
   Mods    |-> NilSlice]

\* The zero value of model.Result.
ZeroResult == [Name |-> 0, Players |-> 0, Mods |-> NilSlice]

\* The elements a slice sl refers to in heap h.
Elems(h, sl) == IF sl.len = 0 THEN << >> ELSE SubSeq(h[sl.arr], 1, sl.len)

\* Everything reachable from a Result value r in heap h: its fields and the
\* elements of its mods list.
Deep(h, r) == [Name |-> r.Name, Players |-> r.Players, Mods |-> Elems(h, r.Mods)]

(***************************************************************************)
(* servers.Store                                                           *)
(***************************************************************************)
\* A Set that keeps the first value stored under a port.
StoreSetFirstWins(store, port, result) ==
  IF result.nil \/ port \in DOMAIN store THEN store
  ELSE [p \in (DOMAIN store) \cup {port} |-> IF p = port THEN result.v ELSE store[p]]

\* A Set that does not look at the configured ports.
StoreSetAnyPort(store, port, result) ==
  IF result.nil THEN store
  ELSE [p \in (DOMAIN store) \cup {port} |-> IF p = port THEN result.v ELSE store[p]]

\* A Set into a store that keeps one result for all ports.
StoreSetOneSlot(store, port, result) ==
  IF result.nil THEN store
  ELSE [p \in (DOMAIN store) \cup {port} |-> result.v]

\* A Set that takes a nil result as a request to delete the entry.
StoreSetNilDeletes(store, port, result) ==
  IF result.nil THEN [p \in (DOMAIN store) \ {port} |-> store[p]]
  ELSE [p \in (DOMAIN store) \cup {port} |-> IF p = port THEN result.v ELSE store[p]]

\* A Set that stores nothing.
StoreSetDropsAll(store, port, result) == store

\* servers.New: the set of valid ports.
StorePorts == {Ports[i] : i \in Workers}

\* Store.Set: nothing changes for a nil result or a port that is not valid;
\* otherwise cp := *result is stored under port.  cp := *result copies the
\* struct; the Mods slice header is copied with it, the backing array is not.
StoreSet(store, port, result) ==
  IF result.nil THEN store
  ELSE IF port \in StorePorts
    THEN [p \in (DOMAIN store) \cup {port} |-> IF p = port THEN result.v ELSE store[p]]
    ELSE store

\* A Get that does not look at the ok of the map lookup.
StoreGetIgnoresOk(store, port) ==
  IF port \notin StorePorts THEN [found |-> FALSE, ptr |-> Nil]
  ELSE IF port \notin DOMAIN store THEN [found |-> TRUE, ptr |-> Ptr(ZeroResult)]
  ELSE [found |-> TRUE, ptr |-> Ptr(store[port])]

\* Store.Get: (nil, false) for a port that is not valid or has no data;
\* otherwise the address of cp := *r, and true.
StoreGet(store, port) ==
  IF port \notin StorePorts THEN [found |-> FALSE, ptr |-> Nil]
  ELSE IF port \notin DOMAIN store THEN [found |-> FALSE, ptr |-> Nil]
  ELSE [found |-> TRUE, ptr |-> Ptr(store[port])]

\* sort.Slice(entries, by Port): the ports of a set in ascending order.
RECURSIVE SortedPorts(_)
SortedPorts(ps) ==
  IF ps = {} THEN << >>
  ELSE LET least == CHOOSE p \in ps : \A q \in ps : p <= q
       IN <<least>> \o SortedPorts(ps \ {least})

\* The orders in which "for port, r := range s.byPort" can visit the keys of
\* the map: every sequence that holds each key once.
MapOrders(store) ==
  {order \in [1..Cardinality(DOMAIN store) -> DOMAIN store] :
     \A a, b \in DOMAIN order : a # b => order[a] # order[b]}

\* The loop of GetAll over the keys in the given order: an entry is appended
\* for every key that is a valid port.
RECURSIVE CollectEntries(_, _)
CollectEntries(store, order) ==
  IF order = << >> THEN << >>
  ELSE LET port == Head(order)
           rest == CollectEntries(store, Tail(order))
       IN IF port \notin StorePorts
            THEN rest
            ELSE <<[Port |-> port, Result |-> Ptr(store[port])]>> \o rest

\* An order that is left as the loop produced it.
SortByPortSkipped(entries) == entries

\* Where an entry goes in a sequence that is sorted by Port.
RECURSIVE InsertByPort(_, _)
InsertByPort(entry, sorted) ==
  IF sorted = << >> THEN <<entry>>
  ELSE IF entry.Port < Head(sorted).Port THEN <<entry>> \o sorted
  ELSE <<Head(sorted)>> \o InsertByPort(entry, Tail(sorted))

\* sort.Slice(entries, func(i, j) { return entries[i].Port < entries[j].Port })
RECURSIVE SortByPort(_)
SortByPort(entries) ==
  IF entries = << >> THEN << >>
  ELSE InsertByPort(Head(entries), SortByPort(Tail(entries)))

\* Store.GetAll when the range loop visits the keys in the given order.
GetAllIn(store, order) == SortByPort(CollectEntries(store, order))

\* Store.GetAll: one ServerEntry{Port, &cp} per valid port that has data,
\* sorted by port.
StoreGetAll(store) ==
  LET ps == SortedPorts((DOMAIN store) \cap StorePorts)
  IN [k \in 1..Len(ps) |-> [Port |-> ps[k], Result |-> Ptr(store[ps[k]])]]

(***************************************************************************)
(* api: the handlers of GET /api/v1/servers and GET /api/v1/servers/<port> *)
(***************************************************************************)
\* A string is the sequence of its characters.
Digits == <<"0", "1", "2", "3", "4", "5", "6", "7", "8", "9">>
IsDigit(c) == \E d \in DOMAIN Digits : Digits[d] = c
DigitValue(c) == (CHOOSE d \in DOMAIN Digits : Digits[d] = c) - 1

\* The value of a sequence of digits, most significant first.
RECURSIVE DecimalValue(_)
DecimalValue(ds) ==
  IF ds = << >> THEN 0
  ELSE DecimalValue(SubSeq(ds, 1, Len(ds) - 1)) * 10 + DigitValue(ds[Len(ds)])

\* strconv.Atoi: an optional sign followed by one or more decimal digits.
Atoi(str) ==
  LET signed == str # << >> /\ Head(str) \in {"+", "-"}
      ds     == IF signed THEN Tail(str) ELSE str
  IN IF ds = << >> \/ \E k \in DOMAIN ds : ~IsDigit(ds[k])
       THEN [ok |-> FALSE, n |-> 0]
       ELSE [ok |-> TRUE,
             n  |-> IF signed /\ Head(str) = "-" THEN 0 - DecimalValue(ds)
                                                 ELSE DecimalValue(ds)]

\* The request methods and the paths below /api/v1/servers/ a client sends.
Methods == {"GET", "POST"}
Suffixes ==
  {<< >>,
   <<"1", "0", "0", "0">>,
   <<"2", "0", "0", "0">>,
   <<"3", "0", "0", "0">>,
   <<"+", "2", "0", "0", "0">>,
   <<"0", "1", "0", "0", "0">>,
   <<"-", "1">>,
   <<"x">>,
   <<"1", "0", "/", "0">>}

\* json.NewEncoder(w).Encode of a *model.Result: the fields and the elements
\* of the mods list the pointer leads to.
EncodeResult(h, ptr) == Deep(h, ptr.v)

\* json.NewEncoder(w).Encode of map[string]any{"servers": entries}.
EncodeEntries(h, entries) ==
  [servers |-> [k \in DOMAIN entries |->
                  [port   |-> entries[k].Port,
                   result |-> EncodeResult(h, entries[k].Result)]]]

\* The responses the handlers write.
MethodNotAllowed == [status |-> 405, type |-> "text/plain", body |-> "Method Not Allowed"]
NotFound == [status |-> 404, type |-> "text/plain", body |-> "404 page not found"]
BadRequest == [status |-> 400, type |-> "text/plain", body |-> "invalid port"]
OKJSON(doc) == [status |-> 200, type |-> "application/json", body |-> doc]

\* A handler that tells a caller which ports are configured.
SingleHandlerNamesUnconfigured(store, h, method, suffix) ==
  IF method # "GET" THEN MethodNotAllowed
  ELSE IF ~Atoi(suffix).ok THEN BadRequest
  ELSE IF Atoi(suffix).n \notin StorePorts THEN BadRequest
  ELSE IF ~StoreGet(store, Atoi(suffix).n).found THEN NotFound
  ELSE OKJSON(EncodeResult(h, StoreGet(store, Atoi(suffix).n).ptr))

\* singleHandler
SingleHandler(store, h, method, suffix) ==
  IF method # "GET" THEN MethodNotAllowed
  ELSE IF suffix = << >> \/ \E k \in DOMAIN suffix : suffix[k] = "/" THEN NotFound
  ELSE IF ~Atoi(suffix).ok THEN BadRequest
  ELSE LET res == StoreGet(store, Atoi(suffix).n)
       IN IF ~res.found THEN NotFound
          ELSE OKJSON(EncodeResult(h, res.ptr))

\* A handler that lists the entries in the order the map gave them.
ListHandlerUnsorted(store, h, method, order) ==
  IF method # "GET" THEN MethodNotAllowed
  ELSE OKJSON(EncodeEntries(h, CollectEntries(store, order)))

\* listHandler, when GetAll's range loop visits the map in the given order.
ListHandler(store, h, method, order) ==
  IF method # "GET" THEN MethodNotAllowed
  ELSE OKJSON(EncodeEntries(h, GetAllIn(store, order)))

\* No request has been served.
NoRequest == [route |-> "none", method |-> "", suffix |-> << >>, seq |-> 0,
              out |-> [status |-> 0, type |-> "", body |-> ""]]

(***************************************************************************)
(* config.Config and its validation                                        *)
(***************************************************************************)
\* A nil error, and the state before Validate has returned.
NoError == "<nil>"
NotValidated == "<not validated>"

\* The log path of the packaged configuration.
DefaultLogPath == "/var/log/dzsa-sync/dzsa-sync.log"
\* The name given to the server of each port of the model's configurations.
ServerName(port) == IF port = TwoPorts[1] THEN "main" ELSE "modded"

\* A loop over the servers that does not remember the ports it has seen.
RECURSIVE ServersErrForgetsSeen(_, _, _)
ServersErrForgetsSeen(servers, k, seenPort) ==
  IF k > Len(servers) THEN NoError
  ELSE LET s == servers[k]
       IN IF s.Name = "" THEN "name is required"
          ELSE IF s.Port = 0 THEN "port is required"
          ELSE IF s.Port < 1 \/ s.Port > 65535 THEN "port must be 1-65535"
          ELSE ServersErrForgetsSeen(servers, k + 1, seenPort)

\* Validate's loop "for i, s := range c.Servers" from index k on, with the
\* ports seen so far: the first error, or nil.
RECURSIVE ServersErr(_, _, _)
ServersErr(servers, k, seenPort) ==
  IF k > Len(servers) THEN NoError
  ELSE LET s == servers[k]
       IN IF s.Name = "" THEN "name is required"
          ELSE IF s.Port = 0 THEN "port is required"
          ELSE IF s.Port < 1 \/ s.Port > 65535 THEN "port must be 1-65535"
          ELSE IF s.Port \in seenPort THEN "duplicate port"
          ELSE ServersErr(servers, k + 1, seenPort \cup {s.Port})

\* c.Validate(): the error it returns.
Validate(c) ==
  IF c.LogPath = "" THEN "log_path is required"
  ELSE IF ~c.DetectIP /\ c.ExternalIP = "" THEN "external_ip is required when detect_ip is false"
  ELSE IF Len(c.Servers) = 0 THEN "servers must not be empty"
  ELSE LET err == ServersErr(c.Servers, 1, {})
       IN IF err # NoError THEN err
          ELSE IF ~c.API.nil /\ c.API.v # 0 /\ (c.API.v < 1 \/ c.API.v > 65535)
                 THEN "api.port must be 1-65535"
          ELSE NoError

\* The configuration file the model's cfg was read from.
ConfigFileOf(c) ==
  [LogPath    |-> DefaultLogPath,
   DetectIP   |-> c.DetectIP,
   ExternalIP |-> c.ExternalIP,
   Servers    |-> [k \in DOMAIN c.Ports |-> [Name |-> ServerName(c.Ports[k]), Port |-> c.Ports[k]]],
   API        |-> Nil]

\* The configurations yaml.Unmarshal can hand to Validate in the model:
\* ports at and around the limits of the range, names, paths and addresses
\* empty and not, api absent or with a port (api.host is not validated).
PortValues == {-1, 0, 1, 2424, 65535, 65536}
ServerValues == [Name : {"", "main"}, Port : PortValues]
ServerLists == UNION {[1..n -> ServerValues] : n \in 0..MaxServers}
ConfigFiles ==
  [LogPath    : {"", DefaultLogPath},
   DetectIP   : BOOLEAN,
   ExternalIP : {NoIP, StaticIP},
   Servers    : ServerLists,
   API        : {Nil} \cup {Ptr(p) : p \in PortValues}]

(***************************************************************************)
(* ifconfig.Client: the cached address                                     *)
(***************************************************************************)
\* A SetAddress that only fills an empty cache.
SetAddressIfEmpty(old, ip) == IF old = "" THEN ip ELSE old

\* A loop that never swaps the cache.
RunStoreKeepsOld(old, o) == old

\* A loop that clears the cache when a detection call fails.
RunStoreClearsOnError(old, o) == IF o \in {"err", ""} THEN "" ELSE o

\* A callback guard that does not compare the two addresses.
ChangeDetectedOnAnySuccess(old, o) == o \notin {"err", ""} /\ old # ""

\* A callback guard that does not require a previous address.
ChangeDetectedFromEmpty(old, o) == o \notin {"err", ""} /\ old # o

\* A send that blocks nowhere because it never delivers.
TrySendLost(len) == len

\* A send on a channel without a capacity limit.
TrySendQueued(len) == len + 1

\* A Reset that leaves a tick that already came due on ticker.C.
TickerResetKeepsTick(ready) == ready

\* A loop without the check for an empty resp.IP.
RunStoreSwapsEmpty(old, o) == IF o = "err" THEN old ELSE o

\* An initial fetch that only logs its outcome.
InitialFetchDiscards(old, o) == old

\* GetAddress: the cached value.
GetAddress == address

\* SetAddress(ip): the value the cache holds afterwards.
SetAddress(old, ip) == ip

\* What one c.Get can come back with: an error ("err"), a response whose IP
\* is empty, or a response with an address.
GetFailed == "err"
GetOutcomes == {GetFailed, NoIP} \cup DetectableIPs

\* Run's initial fetch, c.Get came back with o: the value the cache holds
\* afterwards.  An error is logged; c.address = resp.IP when resp.IP is not empty.
InitialFetchStore(old, o) ==
  IF o = GetFailed THEN old
  ELSE IF o # NoIP THEN o
  ELSE old

\* Run's loop, c.Get came back with o: the value the cache holds afterwards.
\* An error or an empty IP: continue.  Otherwise, under the lock,
\* old := c.address; c.address = resp.IP.
RunStore(old, o) ==
  IF o = GetFailed THEN old
  ELSE IF o = NoIP THEN old
  ELSE o

\* Run's loop, c.Get came back with o while the cache held old: whether
\* onChanged(old, resp.IP) is called (onChanged is never nil in main).
ChangeDetected(old, o) ==
  /\ o # GetFailed
  /\ o # NoIP
  /\ old # NoIP
  /\ old # o

(***************************************************************************)
(* Trigger channels                                                        *)
(***************************************************************************)
\* select { case ch <- struct{}{}: default: }: the channel length afterwards.
TrySend(len) == IF len < TriggerCap THEN len + 1 ELSE len

(***************************************************************************)
(* time.Ticker                                                             *)
(***************************************************************************)
\* ticker.Reset(syncInterval): whether a tick is ready on ticker.C afterwards.
\* The period restarts and a tick that came due before the call is dropped.
TickerReset(ready) == FALSE

(***************************************************************************)
(* Initial state: main up to and including the creation of triggerChans.   *)
(***************************************************************************)
DetectNoFallback(ps) == [DetectIP |-> TRUE,  ExternalIP |-> NoIP, Ports |-> ps]
DetectWithFallback(ps) == [DetectIP |-> TRUE,  ExternalIP |-> StaticIP, Ports |-> ps]
FixedIP(ps) == [DetectIP |-> FALSE, ExternalIP |-> StaticIP, Ports |-> ps]

\* Everything but the configuration file under validation and the recorder
\* the clients are given.
InitProgram(c, t, pl) ==
  /\ cfg = c
  /\ track = t
  /\ players = pl
  /\ address = IF c.DetectIP THEN NoIP ELSE SetAddress(NoIP, c.ExternalIP)
  /\ cancelled = FALSE
  /\ apiPC = "serving"
  /\ requestCount = << >>
  /\ requestLatency = << >>
  /\ reqLog = << >>
  /\ mainPC = "start"
  /\ ifPC = "off"
  /\ ifIdx = 0
  /\ triggerChans = [i \in Workers |-> 0]
  /\ wPC = [i \in Workers |-> "off"]
  /\ wCause = [i \in Workers |-> "none"]
  /\ wIP = [i \in Workers |-> NoIP]
  /\ inFlight = [i \in Workers |-> 0]
  /\ tickC = [i \in Workers |-> FALSE]
  /\ byPort = << >>
  /\ probeLog = << >>
  /\ cbLog = << >>
  /\ want = [i \in {0} \cup Workers |-> NoIP]
  /\ stale = [i \in Workers |-> FALSE]
  /\ sentSince = [i \in Workers |-> 0]
  /\ fullSince = [i \in Workers |-> TRUE]
  /\ qLog = [i \in Workers |-> << >>]
  /\ heap = << >>
  /\ callerR = ZeroResult
  /\ got = [port |-> 0, found |-> FALSE, ptr |-> Nil]
  /\ gotSnap = Deep(<< >>, ZeroResult)
  /\ lastSet = [port |-> 0, nil |-> TRUE]
  /\ resp = NoRequest
  /\ gauge = << >>
  /\ gaugeLog = [i \in Workers |-> << >>]
  /\ setSnap = << >>
  /\ tainted = {}
  /\ setLog = << >>
  /\ setRet = NoResult
  /\ gotAddr = NoIP

\* main goes on only with a configuration NewFromFile returned without error.
InitWith(c, t, pl) ==
  /\ InitProgram(c, t, pl)
  /\ recorder = TRUE
  /\ valIn = ConfigFileOf(c)
  /\ valErr = Validate(ConfigFileOf(c))

Init ==
  \E c \in {DetectNoFallback(TwoPorts), DetectWithFallback(TwoPorts), FixedIP(TwoPorts)} :
    InitWith(c, {"want", "period"}, {0})

(***************************************************************************)
(* main                                                                    *)
(***************************************************************************)
\* if cfg.DetectIP { go ifconfigClient.Run(signalCtx, onIPChanged); sleep }
\* A main that starts ifconfigClient.Run whatever detect_ip says.
WatcherStartedAlways(c, pc) == "init"

\* if cfg.DetectIP { go ifconfigClient.Run(signalCtx, onIPChanged); ... }
WatcherStarted(c, pc) == IF c.DetectIP THEN "init" ELSE pc

MainStartWatcher ==
  /\ mainPC = "start"
  /\ mainPC' = "spawn"
  /\ ifPC' = WatcherStarted(cfg, ifPC)
  /\ UNCHANGED <<address, cancelled, ifIdx, probeLog, cbLog, byPort, tickC>>
  /\ UNCHANGED <<fixedVars, serverVars, clientVars, qLog, metricsVars, chanVars, workerVars, want, stale, fullSince>>

\* The loop that starts one runPortWorker per port; each worker creates its
\* ticker and enters the startup syncOnce.
\* A loop that calls runPortWorker instead of starting it with go: it is
\* still inside the first call.
WorkersStartedInline == [i \in Workers |-> IF i = 1 THEN "jitter" ELSE "off"]

\* for i, port := range cfg.Ports { wg.Add(1); go func(...) {...}(...) }: a
\* goroutine per port, each entering its startup syncOnce.
WorkersStarted == [i \in Workers |-> "jitter"]

MainStartWorkers ==
  /\ mainPC = "spawn"
  /\ mainPC' = "wait"
  /\ wPC' = WorkersStarted
  /\ wCause' = [i \in Workers |-> "startup"]
  /\ inFlight' = [i \in Workers |-> 1]
  /\ UNCHANGED <<address, cancelled, byPort, wIP, tickC>>
  /\ UNCHANGED <<fixedVars, serverVars, clientVars, qLog, metricsVars, ifVars, chanVars, want, stale, fullSince>>

\* <-signalCtx.Done(); cancel()
MainShutdown ==
  /\ mainPC = "wait"
  /\ cancelled
  /\ mainPC' = "wgwait"
  /\ UNCHANGED <<address, cancelled, byPort, tickC>>
  /\ UNCHANGED <<fixedVars, serverVars, clientVars, qLog, metricsVars, ifVars, chanVars, workerVars, want, stale, fullSince>>

\* A wait that returns without a worker having returned.
WaitGroupSkipped == TRUE

\* A wait group that counts the first worker only.
WaitGroupFirstOnly == wPC[1] = "done"

\* A wait group whose counter is never brought back to zero.
WaitGroupNeverZero == FALSE

\* The wait group's counter is zero: every worker goroutine, which was added
\* before it was started, has run its deferred wg.Done().
WaitGroupZero == \A i \in Workers : wPC[i] = "done"

\* wg.Wait() returns once every worker has returned.
MainJoin ==
  /\ mainPC = "wgwait"
  /\ WaitGroupZero
  /\ mainPC' = "exit"
  /\ UNCHANGED <<address, cancelled, byPort, tickC>>
  /\ UNCHANGED <<fixedVars, serverVars, clientVars, qLog, metricsVars, ifVars, chanVars, workerVars, want, stale, fullSince>>

\* SIGINT or SIGTERM arrives: signal.NotifyContext closes signalCtx.Done().
Signal ==
  /\ ~cancelled
  /\ cancelled' = TRUE
  /\ UNCHANGED <<address, byPort, tickC>>
  /\ UNCHANGED <<fixedVars, serverVars, clientVars, qLog, metricsVars, mainVars, ifVars, chanVars, workerVars, want, stale, fullSince>>

\* An API server goroutine that only logs the error.
ServeErrorOnlyLogged(c) == c

\* logger.Error("API server", ...); cancel(): the root context is cancelled
\* and signalCtx, which derives from it, is done.
ServeErrorCancels(c) == TRUE

\* apiServer.ListenAndServe() returned an error other than
\* http.ErrServerClosed, while main has not returned.
ApiServerError ==
  /\ apiPC = "serving"
  /\ mainPC # "exit"
  /\ apiPC' = "failed"
  /\ cancelled' = ServeErrorCancels(cancelled)
  /\ UNCHANGED <<address, byPort, tickC>>
  /\ UNCHANGED <<fixedVars, clientVars, qLog, metricsVars, mainVars, ifVars, chanVars, workerVars, want, stale, fullSince>>

(***************************************************************************)
(* ifconfig.Client.Run                                                     *)
(***************************************************************************)
\* History "want" after a detection call that came back with o.
WantAfterDetection(o) ==
  IF o \in DetectableIPs
    THEN [i \in DOMAIN want |-> IF i = 0 \/ want[i] # NoIP THEN o ELSE NoIP]
    ELSE want

\* Initial fetch: resp, err := c.Get(ctx) and what follows it before the loop.
\* onChanged is not consulted here.
IfInitialFetch ==
  /\ ifPC = "init"
  /\ \E o \in GetOutcomes :
       /\ address' = InitialFetchStore(address, o)
       /\ probeLog' = Rec("log", Append(probeLog, o), probeLog)
       /\ want' = Rec("want", WantAfterDetection(o), want)
  /\ ifPC' = "wait"
  /\ UNCHANGED <<cancelled, byPort, ifIdx, cbLog, tickC>>
  /\ UNCHANGED <<fixedVars, serverVars, clientVars, qLog, metricsVars, mainVars, chanVars, workerVars, stale, fullSince>>

\* case <-ticker.C: the 10 minute ticker fired and c.Get is in flight.
IfTick ==
  /\ ifPC = "wait"
  /\ "log" \in track => Len(probeLog) < MaxProbes
  /\ ifPC' = "get"
  /\ UNCHANGED <<address, cancelled, byPort, ifIdx, probeLog, cbLog, tickC>>
  /\ UNCHANGED <<fixedVars, serverVars, clientVars, qLog, metricsVars, mainVars, chanVars, workerVars, want, stale, fullSince>>

\* c.Get returned inside the loop: on an error or an empty IP the loop
\* continues; otherwise the cache is swapped under the lock and, when the
\* address changed, onChanged(old, resp.IP) is entered.
IfGetReturn ==
  /\ ifPC = "get"
  /\ \E o \in GetOutcomes :
       /\ probeLog' = Rec("log", Append(probeLog, o), probeLog)
       /\ want' = Rec("want", WantAfterDetection(o), want)
       /\ address' = RunStore(address, o)
       /\ IF ChangeDetected(address, o)
            THEN /\ cbLog' = Rec("log", Append(cbLog, [at  |-> Len(probeLog) + 1,
                                                       old |-> address,
                                                       new |-> o]), cbLog)
                 /\ stale' = Rec("stale", [i \in Workers |-> TRUE], stale)
                 /\ ifPC' = "fanout"
                 /\ ifIdx' = 1
            ELSE /\ UNCHANGED <<cbLog, ifIdx, stale>>
                 /\ ifPC' = "wait"
  /\ UNCHANGED <<cancelled, byPort, tickC>>
  /\ UNCHANGED <<fixedVars, serverVars, clientVars, qLog, metricsVars, mainVars, chanVars, workerVars, fullSince>>

\* A plain send statement, ch <- struct{}{}: it waits for room in the buffer.
SendProceedsWhenRoom(len) == len < TriggerCap

\* select { case ch <- struct{}{}: default: } proceeds whatever the channel
\* holds: the default case is taken when the send cannot go ahead.
SendProceeds(len) == TRUE

\* onIPChanged: one iteration of "for _, ch := range triggerChans", a
\* non-blocking send on ch.
OnIPChangedSend ==
  /\ ifPC = "fanout"
  /\ SendProceeds(triggerChans[ifIdx])
  /\ LET i == ifIdx
         len == TrySend(triggerChans[i])
     IN /\ triggerChans' = [triggerChans EXCEPT ![i] = len]
        /\ want' = Rec("want", [want EXCEPT ![i] = IF len > 0 THEN want[0] ELSE @], want)
        /\ sentSince' = Rec("sends",
                            [sentSince EXCEPT ![i] = IF @ < MaxSends THEN @ + 1 ELSE @],
                            sentSince)
        /\ IF i < Len(Ports)
             THEN ifIdx' = i + 1 /\ ifPC' = "fanout"
             ELSE ifIdx' = 0 /\ ifPC' = "wait"
  /\ UNCHANGED <<address, cancelled, byPort, probeLog, cbLog, tickC>>
  /\ UNCHANGED <<fixedVars, serverVars, clientVars, qLog, metricsVars, mainVars, workerVars, stale, fullSince>>

\* case <-ctx.Done(): return
IfDone ==
  /\ ifPC = "wait"
  /\ cancelled
  /\ ifPC' = "done"
  /\ UNCHANGED <<address, cancelled, byPort, ifIdx, probeLog, cbLog, tickC>>
  /\ UNCHANGED <<fixedVars, serverVars, clientVars, qLog, metricsVars, mainVars, chanVars, workerVars, want, stale, fullSince>>

(***************************************************************************)
(* runPortWorker                                                           *)
(***************************************************************************)
\* syncOnce returns to its caller and the worker is back at its select: the
\* startup call and the ticker case go there directly, the trigger case
\* through ticker.Reset(syncInterval).
\* A worker that gives up when a sync had no address to query with.
AfterSyncSkipExits(ip) == IF ip = NoIP THEN "done" ELSE "select"

\* Where the goroutine is once syncOnce has returned, whatever it did with
\* the address ip it resolved: in the for loop, at its select.
AfterSync(ip) == "select"

SyncReturn(i) ==
  /\ wPC' = [wPC EXCEPT ![i] = AfterSync(wIP[i])]
  /\ wCause' = [wCause EXCEPT ![i] = "none"]
  /\ wIP' = [wIP EXCEPT ![i] = NoIP]
  /\ inFlight' = [inFlight EXCEPT ![i] = @ - 1]
  /\ tickC' = IF wCause[i] = "trigger"
                THEN [tickC EXCEPT ![i] = TickerReset(tickC[i])]
                ELSE tickC
  /\ want' = IF wCause[i] = "trigger" /\ triggerChans[i] = 0
               THEN Rec("want", [want EXCEPT ![i] = NoIP], want)
               ELSE want
  /\ fullSince' = IF wCause[i] = "trigger"
                    THEN Rec("period", [fullSince EXCEPT ![i] = FALSE], fullSince)
                    ELSE fullSince

\* syncOnce, jitter > 0: case <-ctx.Done(): return
SyncJitterCancelled(i) ==
  /\ wPC[i] = "jitter"
  /\ cancelled
  /\ SyncReturn(i)
  /\ UNCHANGED <<address, cancelled, byPort, stale>>
  /\ UNCHANGED <<fixedVars, serverVars, clientVars, qLog, metricsVars, mainVars, ifVars, chanVars>>

\* A sync that does not check whether it has an address.
NoIPAvailableUnchecked(ip) == FALSE

\* ip := ifconfig.GetAddress(); if ip == "" { ip = cfg.ExternalIP }
ResolveIP(cached, external) == IF cached = NoIP THEN external ELSE cached

\* if ip == "": "no external IP available, skipping sync"
NoIPAvailable(ip) == ip = NoIP

\* syncOnce after the jitter: ip := ifconfig.GetAddress(), the fallback to
\* cfg.ExternalIP, and the skip when both are empty.
\* A sync that writes the address it resolved, fallback included, back to
\* the cache.
CacheAfterResolveStoresFallback(cached, ip) == ip

\* syncOnce only reads the cache, through GetAddress: the cache after it.
CacheAfterResolve(cached, ip) == cached

SyncResolveIP(i) ==
  /\ wPC[i] = "jitter"
  /\ "queries" \in track => Len(qLog[i]) < MaxQueries
  /\ stale' = Rec("stale", [stale EXCEPT ![i] = FALSE], stale)
  /\ LET cached == GetAddress
         ip     == ResolveIP(cached, cfg.ExternalIP)
     IN IF NoIPAvailable(ip)
          THEN SyncReturn(i)
          ELSE /\ wPC' = [wPC EXCEPT ![i] = "query"]
               /\ wIP' = [wIP EXCEPT ![i] = ip]
               /\ UNCHANGED <<wCause, inFlight, want, fullSince, tickC>>
  /\ address' = CacheAfterResolve(address, ResolveIP(GetAddress, cfg.ExternalIP))
  /\ UNCHANGED <<cancelled, byPort>>
  /\ UNCHANGED <<fixedVars, serverVars, clientVars, qLog, metricsVars, mainVars, ifVars, chanVars>>

\* An error path that drops the stored result of the port.
StoreAfterQueryErrorCleared(store, port) ==
  [p \in DOMAIN store \ {port} |-> store[p]]

\* if err != nil { logger.Error(...); return }: the store afterwards.
StoreAfterQueryError(store, port) == store

\* dzsa.Query(ctx, ip, port) returned an error: log and return.
SyncQueryError(i) ==
  /\ wPC[i] = "query"
  /\ byPort' = StoreAfterQueryError(byPort, Ports[i])
  /\ qLog' = Rec("queries", [qLog EXCEPT ![i] = Append(@, QueryFailed)], qLog)
  /\ SyncReturn(i)
  /\ UNCHANGED <<address, cancelled, stale, metricsVars>>
  /\ UNCHANGED <<fixedVars, serverVars, clientVars, mainVars, ifVars, chanVars>>

\* A recorder that leaves the "server" attribute empty.
RecordServerPlayerCountUnnamed(g, serverName, count) ==
  [s \in DOMAIN g \cup {""} |-> IF s = "" THEN count ELSE g[s]]

\* RecordServerPlayerCount(ctx, serverName, count): the gauge afterwards.
\* gauge.Record keeps the last value per attribute set {server: serverName}.
RecordServerPlayerCount(g, serverName, count) ==
  [s \in DOMAIN g \cup {serverName} |-> IF s = serverName THEN count ELSE g[s]]

\* The worker of a server, after a successful sync, records
\* server_player_count with the server's configured name and result.Players.
SyncRecordPlayerCount(i, result) ==
  /\ gauge' = RecordServerPlayerCount(gauge, ServerName(Ports[i]), result.Players)
  /\ gaugeLog' = Rec("queries",
                     [gaugeLog EXCEPT ![i] = Append(@, [server |-> ServerName(Ports[i]),
                                                        count  |-> result.Players])],
                     gaugeLog)

\* Goroutines that share the loop variable of the range loop: by the time
\* they run, it holds the last port.
WorkerPortShared(i) == Ports[Len(Ports)]

\* The port of worker i: go func(port int, ...) {...}(port, triggerChans[i])
\* passes the port of the iteration to the goroutine as an argument.
WorkerPort(i) == Ports[i]

\* dzsa.Query(ctx, ip, port) succeeded: store.Set(port, &result), the player
\* count gauge, and return.
SyncQueryOK(i) ==
  /\ wPC[i] = "query"
  /\ \E n \in players :
       /\ byPort' = StoreSet(byPort, WorkerPort(i), Ptr(QueryResult(WorkerPort(i), n)))
       /\ qLog' = Rec("queries", [qLog EXCEPT ![i] = Append(@, QueryOK(n))], qLog)
       /\ SyncRecordPlayerCount(i, QueryResult(Ports[i], n))
  /\ SyncReturn(i)
  /\ UNCHANGED <<address, cancelled, stale>>
  /\ UNCHANGED <<fixedVars, serverVars, clientVars, mainVars, ifVars, chanVars>>

\* A loop that starts syncOnce without waiting for it, and so is back at
\* its select while the sync runs.
AtSelectWhileSyncing(i) == wPC[i] \in {"select", "jitter", "query"}

\* The worker goroutine is at the select of its for loop: syncOnce is called
\* in the case bodies and has returned before the loop comes round.
AtSelect(i) == wPC[i] = "select"

\* case <-ticker.C: syncOnce()
WorkerTick(i) ==
  /\ AtSelect(i)
  /\ tickC[i]
  /\ tickC' = [tickC EXCEPT ![i] = FALSE]
  /\ wPC' = [wPC EXCEPT ![i] = "jitter"]
  /\ wCause' = [wCause EXCEPT ![i] = "tick"]
  /\ inFlight' = [inFlight EXCEPT ![i] = @ + 1]
  /\ UNCHANGED <<address, cancelled, byPort, wIP>>
  /\ UNCHANGED <<fixedVars, serverVars, clientVars, qLog, metricsVars, mainVars, ifVars, chanVars, want, stale, fullSince>>

\* case <-trigger: syncOnce() (ticker.Reset follows its return)
WorkerTrigger(i) ==
  /\ AtSelect(i)
  /\ triggerChans[i] > 0
  /\ triggerChans' = [triggerChans EXCEPT ![i] = @ - 1]
  /\ sentSince' = Rec("sends", [sentSince EXCEPT ![i] = 0], sentSince)
  /\ wPC' = [wPC EXCEPT ![i] = "jitter"]
  /\ wCause' = [wCause EXCEPT ![i] = "trigger"]
  /\ inFlight' = [inFlight EXCEPT ![i] = @ + 1]
  /\ UNCHANGED <<address, cancelled, byPort, wIP, tickC>>
  /\ UNCHANGED <<fixedVars, serverVars, clientVars, qLog, metricsVars, mainVars, ifVars, want, stale, fullSince>>

\* case <-ctx.Done(): return (the deferred ticker.Stop() runs)
WorkerDone(i) ==
  /\ AtSelect(i)
  /\ cancelled
  /\ wPC' = [wPC EXCEPT ![i] = "done"]
  /\ tickC' = [tickC EXCEPT ![i] = FALSE]
  /\ UNCHANGED <<address, cancelled, byPort, wCause, wIP, inFlight>>
  /\ UNCHANGED <<fixedVars, serverVars, clientVars, qLog, metricsVars, mainVars, ifVars, chanVars, want, stale, fullSince>>

WorkerStep(i) ==
  \/ SyncJitterCancelled(i)
  \/ SyncResolveIP(i)
  \/ SyncQueryError(i)
  \/ SyncQueryOK(i)
  \/ WorkerTick(i)
  \/ WorkerTrigger(i)
  \/ WorkerDone(i)

(***************************************************************************)
(* The worker's ticker: a period has elapsed since the ticker was created, *)
(* last fired or was reset, and a tick becomes ready on ticker.C (one at   *)
(* most is ever ready).  Every fire is at least one period later than the  *)
(* return of the last trigger sync, which reset the ticker.                *)
(***************************************************************************)
Running(i) == wPC[i] \notin {"off", "done"}

TickerFire(i) ==
  /\ Running(i)
  /\ ~tickC[i]
  /\ tickC' = [tickC EXCEPT ![i] = TRUE]
  /\ fullSince' = Rec("period", [fullSince EXCEPT ![i] = TRUE], fullSince)
  /\ UNCHANGED <<address, cancelled, byPort>>
  /\ UNCHANGED <<fixedVars, serverVars, clientVars, qLog, metricsVars, mainVars, ifVars, chanVars, workerVars, want, stale>>

(***************************************************************************)
(* The program                                                             *)
(***************************************************************************)
Next ==
  \/ MainStartWatcher
  \/ MainStartWorkers
  \/ MainShutdown
  \/ MainJoin
  \/ Signal
  \/ IfInitialFetch
  \/ IfTick
  \/ IfGetReturn
  \/ OnIPChangedSend
  \/ IfDone
  \/ \E i \in AllWorkers : i \in Workers /\ WorkerStep(i)
  \/ \E i \in AllWorkers : i \in Workers /\ TickerFire(i)

Spec == Init /\ [][Next]_vars

(***************************************************************************)
(* Specifications of the running program that record one history each.     *)
(***************************************************************************)
\* Detect-IP mode, one port, every detection call and callback recorded.
LogInit ==
  \E c \in {DetectNoFallback(OnePort), DetectWithFallback(OnePort)} :
    InitWith(c, {"log"}, {0})

LogSpec == LogInit /\ [][Next]_vars

\* Detect-IP mode, two ports, the sends on every trigger channel counted.
SendsInit == InitWith(DetectNoFallback(TwoPorts), {"sends"}, {0})

SendsSpec == SendsInit /\ [][Next]_vars

\* Fixed-IP and detect-IP mode with a fallback, every dzsa.Query call of
\* every worker recorded.
QueriesInit ==
  \E c \in {FixedIP(TwoPorts), DetectWithFallback(OnePort)} :
    InitWith(c, {"queries"}, PlayerCounts)

QueriesSpec == QueriesInit /\ [][Next]_vars

(***************************************************************************)
(* The program with a scheduler that lets every goroutine run.  main's     *)
(* steps, the return of an outbound call (bounded by the HTTP timeout and  *)
(* ended by the cancelled context) and the end of a jitter wait happen     *)
(* once they can.  A select whose ctx.Done() case is ready picks among its *)
(* ready cases at random, so a loop that comes back to the select again    *)
(* and again with ctx.Done() ready eventually takes that case.  Nothing is *)
(* assumed of the signal or of the tickers.                                *)
(***************************************************************************)
SyncStep(i) ==
  \/ SyncJitterCancelled(i)
  \/ SyncResolveIP(i)
  \/ SyncQueryError(i)
  \/ SyncQueryOK(i)

ShutdownFairness ==
  /\ WF_vars(MainStartWatcher)
  /\ WF_vars(MainStartWorkers)
  /\ WF_vars(MainShutdown)
  /\ WF_vars(MainJoin)
  /\ WF_vars(IfInitialFetch)
  /\ WF_vars(IfGetReturn)
  /\ WF_vars(OnIPChangedSend)
  /\ SF_vars(IfDone)
  /\ \A i \in AllWorkers : WF_vars(i \in Workers /\ SyncStep(i))
  /\ \A i \in AllWorkers : SF_vars(i \in Workers /\ WorkerDone(i))

ShutdownInit ==
  \E c \in {DetectNoFallback(OnePort), DetectWithFallback(OnePort), FixedIP(TwoPorts)} :
    InitWith(c, {}, {0})

ShutdownSpec == ShutdownInit /\ [][Next]_vars /\ ShutdownFairness

(***************************************************************************)
(* The program when no signal arrives and the API server may fail.  For    *)
(* the contexts the failure is the step the signal is: Next has the        *)
(* signal, this specification has the failure in its place.                *)
(***************************************************************************)
ServeErrorNext ==
  \/ MainStartWatcher
  \/ MainStartWorkers
  \/ MainShutdown
  \/ MainJoin
  \/ ApiServerError
  \/ IfInitialFetch
  \/ IfTick
  \/ IfGetReturn
  \/ OnIPChangedSend
  \/ IfDone
  \/ \E i \in AllWorkers : i \in Workers /\ WorkerStep(i)
  \/ \E i \in AllWorkers : i \in Workers /\ TickerFire(i)

ServeErrorSpec == ShutdownInit /\ [][ServeErrorNext]_vars /\ ShutdownFairness

(***************************************************************************)
(* The program when the directory service never answers the first port:    *)
(* the first worker stays inside dzsa.Query once it has entered it.  Only  *)
(* main and the second worker are assumed to be scheduled.                 *)
(***************************************************************************)
FirstBlockedNext ==
  \/ MainStartWatcher
  \/ MainStartWorkers
  \/ MainShutdown
  \/ Signal
  \/ IfInitialFetch
  \/ IfTick
  \/ IfGetReturn
  \/ OnIPChangedSend
  \/ IfDone
  \/ SyncJitterCancelled(1)
  \/ SyncResolveIP(1)
  \/ WorkerTick(1)
  \/ WorkerTrigger(1)
  \/ WorkerDone(1)
  \/ WorkerStep(2)
  \/ \E i \in AllWorkers : i \in Workers /\ TickerFire(i)

FirstBlockedFairness ==
  /\ WF_vars(MainStartWatcher)
  /\ WF_vars(MainStartWorkers)
  /\ WF_vars(SyncStep(2))

FirstBlockedInit ==
  \E c \in {DetectNoFallback(TwoPorts), DetectWithFallback(TwoPorts), FixedIP(TwoPorts)} :
    InitWith(c, {}, {0})

FirstBlockedSpec == FirstBlockedInit /\ [][FirstBlockedNext]_vars /\ FirstBlockedFairness

(***************************************************************************)
(* The program while no signal arrives.  A goroutine that can take a step  *)
(* is eventually scheduled: main starts the workers, onIPChanged's sends   *)
(* never block, GetAddress only waits for a mutex that is held for a       *)
(* memory access, dzsa.Query returns within the HTTP client's timeout.     *)
(* Nothing is assumed of the tickers.                                      *)
(***************************************************************************)
RunningStep(i) ==
  \/ SyncResolveIP(i)
  \/ SyncQueryError(i)
  \/ SyncQueryOK(i)
  \/ WorkerTick(i)
  \/ WorkerTrigger(i)

RunningNext ==
  \/ MainStartWatcher
  \/ MainStartWorkers
  \/ IfInitialFetch
  \/ IfTick
  \/ IfGetReturn
  \/ OnIPChangedSend
  \/ \E i \in AllWorkers : i \in Workers /\ RunningStep(i)
  \/ \E i \in AllWorkers : i \in Workers /\ TickerFire(i)

RunningInit == InitWith(DetectNoFallback(TwoPorts), {"stale"}, {0})

RunningFairness ==
  /\ WF_vars(MainStartWorkers)
  /\ WF_vars(OnIPChangedSend)
  /\ \A i \in AllWorkers : WF_vars(i \in Workers /\ RunningStep(i))

RunningSpec == RunningInit /\ [][RunningNext]_vars /\ RunningFairness

(***************************************************************************)
(* The program while no signal arrives, with its tickers: a ticker that    *)
(* holds no tick fires when its period has elapsed, and the jitter timer   *)
(* of a sync expires.                                                      *)
(***************************************************************************)
LiveInit ==
  \E c \in {DetectNoFallback(OnePort), DetectWithFallback(OnePort), FixedIP(TwoPorts)} :
    InitWith(c, {}, {0})

LiveFairness ==
  /\ WF_vars(MainStartWatcher)
  /\ WF_vars(MainStartWorkers)
  /\ \A i \in AllWorkers : WF_vars(i \in Workers /\ RunningStep(i))
  /\ \A i \in AllWorkers : WF_vars(i \in Workers /\ TickerFire(i))

LiveSpec == LiveInit /\ [][RunningNext]_vars /\ LiveFairness

(***************************************************************************)
(* config.NewFromFile on every configuration file of ConfigFiles: the      *)
(* file is unmarshalled into valIn and c.Validate() decides.               *)
(***************************************************************************)
NewFromFileValidate ==
  /\ valErr = NotValidated
  /\ valErr' = Validate(valIn)
  /\ UNCHANGED <<valIn, cfg, track, players, address, byPort, clientVars>>
  /\ UNCHANGED <<cancelled, mainPC, ifPC, ifIdx, triggerChans, wPC, wCause, wIP, tickC,
                 probeLog, cbLog, want, stale, sentSince, fullSince, qLog, metricsVars,
                 inFlight, serverVars>>

ConfigNext == NewFromFileValidate

ConfigInit ==
  /\ InitProgram(FixedIP(OnePort), {}, {0})
  /\ recorder = TRUE
  /\ valIn \in ConfigFiles
  /\ valErr = NotValidated

ConfigSpec == ConfigInit /\ [][ConfigNext]_vars

(***************************************************************************)
(* A client of servers.Store: it owns a model.Result variable r, fills and *)
(* changes it, and calls Set and Get with ports that are and are not       *)
(* configured.                                                             *)
(***************************************************************************)
\* A port no configuration of the model lists.
ClientPorts == {TwoPorts[k] : k \in DOMAIN TwoPorts} \cup {3000}
ModNames == {"a", "b"}

\* r = model.Result{Name: ..., Players: n} with a nil mods list.
CallerNewPlain ==
  /\ \E n \in players :
       callerR' = QueryResult(TwoPorts[1], n)
  /\ UNCHANGED <<gotSnap, heap, got, setSnap, tainted>>
  /\ UNCHANGED <<lastSet, byPort, address, programVars, requestVars, cacheClientVars, apiVars>>

\* r = model.Result{..., Mods: []model.Mods{{Name: m}}}: a new backing array.
CallerNewWithMods ==
  /\ Len(heap) < MaxAllocs
  /\ \E n \in players, m \in ModNames :
       /\ heap' = Append(heap, <<[Name |-> m]>>)
       /\ callerR' = [QueryResult(TwoPorts[1], n) EXCEPT
                        !.Mods = [arr |-> Len(heap) + 1, len |-> 1]]
  /\ UNCHANGED <<gotSnap, got, setSnap, tainted>>
  /\ UNCHANGED <<lastSet, byPort, address, programVars, requestVars, cacheClientVars, apiVars>>

\* r.Players = n
CallerSetPlayers ==
  /\ \E n \in players :
       /\ n # callerR.Players
       /\ callerR' = [callerR EXCEPT !.Players = n]
  /\ UNCHANGED <<gotSnap, heap, got, setSnap, tainted>>
  /\ UNCHANGED <<lastSet, byPort, address, programVars, requestVars, cacheClientVars, apiVars>>

\* r.Mods[k].Name = m: a write to the backing array r.Mods refers to.
CallerSetModName ==
  /\ \E k \in 1..callerR.Mods.len, m \in ModNames :
       /\ m # heap[callerR.Mods.arr][k].Name
       /\ heap' = [heap EXCEPT ![callerR.Mods.arr][k].Name = m]
       /\ tainted' = tainted \cup
            {p \in DOMAIN byPort : /\ byPort[p].Mods.arr = callerR.Mods.arr
                                   /\ k <= byPort[p].Mods.len}
  /\ UNCHANGED <<gotSnap, callerR, got, setSnap>>
  /\ UNCHANGED <<lastSet, byPort, address, programVars, requestVars, cacheClientVars, apiVars>>

\* store.Set(port, &r)
StoreSetOp ==
  /\ \E port \in ClientPorts :
       /\ byPort' = StoreSet(byPort, port, Ptr(callerR))
       /\ lastSet' = Rec("ops", [port |-> port, nil |-> FALSE], lastSet)
       /\ IF port \in StorePorts
            THEN /\ setSnap' = [p \in (DOMAIN setSnap) \cup {port} |->
                                  IF p = port THEN Deep(heap, callerR) ELSE setSnap[p]]
                 /\ tainted' = tainted \ {port}
            ELSE UNCHANGED <<setSnap, tainted>>
  /\ UNCHANGED <<gotSnap, heap, callerR, got>>
  /\ UNCHANGED <<address, programVars, requestVars, cacheClientVars, apiVars>>

\* store.Set(port, nil)
StoreSetNilOp ==
  /\ \E port \in ClientPorts :
       /\ byPort' = StoreSet(byPort, port, Nil)
       /\ lastSet' = Rec("ops", [port |-> port, nil |-> TRUE], lastSet)
  /\ UNCHANGED <<gotSnap, heap, callerR, got, setSnap, tainted>>
  /\ UNCHANGED <<address, programVars, requestVars, cacheClientVars, apiVars>>

\* got, ok := store.Get(port)
StoreGetOp ==
  /\ \E port \in ClientPorts :
       LET res == StoreGet(byPort, port)
       IN /\ got' = [port |-> port, found |-> res.found, ptr |-> res.ptr]
          /\ gotSnap' = IF res.found
                          THEN Rec("reader", Deep(heap, res.ptr.v), gotSnap)
                          ELSE gotSnap
  /\ UNCHANGED <<byPort, heap, callerR, setSnap, tainted>>
  /\ UNCHANGED <<lastSet, address, programVars, requestVars, cacheClientVars, apiVars>>

\* got.Players = n: a write to the reader's own copy of the struct.
ReaderSetPlayers ==
  /\ got.found
  /\ \E n \in players :
       /\ n # got.ptr.v.Players
       /\ got' = [got EXCEPT !.ptr.v.Players = n]
       /\ gotSnap' = Rec("reader", [gotSnap EXCEPT !.Players = n], gotSnap)
  /\ UNCHANGED <<byPort, heap, callerR, setSnap, tainted>>
  /\ UNCHANGED <<lastSet, address, programVars, requestVars, cacheClientVars, apiVars>>

\* got.Mods[k].Name = m: a write to the backing array got.Mods refers to.
ReaderSetModName ==
  /\ got.found
  /\ \E k \in 1..got.ptr.v.Mods.len, m \in ModNames :
       /\ m # heap[got.ptr.v.Mods.arr][k].Name
       /\ heap' = [heap EXCEPT ![got.ptr.v.Mods.arr][k].Name = m]
       /\ gotSnap' = Rec("reader", [gotSnap EXCEPT !.Mods[k].Name = m], gotSnap)
       /\ tainted' = tainted \cup
            {p \in DOMAIN byPort : /\ byPort[p].Mods.arr = got.ptr.v.Mods.arr
                                   /\ k <= byPort[p].Mods.len}
  /\ UNCHANGED <<byPort, callerR, got, setSnap>>
  /\ UNCHANGED <<lastSet, address, programVars, requestVars, cacheClientVars, apiVars>>

StoreNext ==
  \/ CallerNewPlain
  \/ CallerNewWithMods
  \/ CallerSetPlayers
  \/ CallerSetModName
  \/ StoreSetOp
  \/ StoreSetNilOp
  \/ StoreGetOp
  \/ ReaderSetPlayers
  \/ ReaderSetModName

\* store := servers.New(cfg.Ports), before any goroutine is started.
StoreInit == InitWith(FixedIP(TwoPorts), {}, PlayerCounts)

StoreSpec == StoreInit /\ [][StoreNext]_vars

(***************************************************************************)
(* Clients that only call the store: Set with any port and result, Get.    *)
(***************************************************************************)
ServeNext ==
  \/ CallerNewPlain
  \/ CallerNewWithMods
  \/ StoreSetOp
  \/ StoreSetNilOp
  \/ StoreGetOp

ServeInit == InitWith(FixedIP(TwoPorts), {"ops"}, PlayerCounts)

ServeSpec == ServeInit /\ [][ServeNext]_vars

(***************************************************************************)
(* The running program in detect-IP mode together with a client of the     *)
(* store that calls Set, with nil and with ports that are not configured   *)
(* among others, and Get.                                                  *)
(***************************************************************************)
KeepNext ==
  \/ Next
  \/ StoreSetOp
  \/ StoreSetNilOp
  \/ StoreGetOp

KeepInit ==
  InitWith(DetectNoFallback(OnePort), {"queries", "ops"}, {0})

KeepSpec == KeepInit /\ [][KeepNext]_vars

(***************************************************************************)
(* The API server: requests are served while values are stored.  seq       *)
(* tells one request from the next.                                        *)
(***************************************************************************)
\* GET (or another method) /api/v1/servers/<suffix>
ApiSingle ==
  /\ \E method \in Methods, suffix \in Suffixes :
       resp' = [route |-> "single", method |-> method, suffix |-> suffix,
                seq |-> 1 - resp.seq,
                out |-> SingleHandler(byPort, heap, method, suffix)]
  /\ UNCHANGED <<byPort, address, programVars, requestVars, storeClientVars, cacheClientVars>>

\* GET (or another method) /api/v1/servers
ApiList ==
  /\ \E method \in Methods, order \in MapOrders(byPort) :
       resp' = [route |-> "list", method |-> method, suffix |-> << >>,
                seq |-> 1 - resp.seq,
                out |-> ListHandler(byPort, heap, method, order)]
  /\ UNCHANGED <<byPort, address, programVars, requestVars, storeClientVars, cacheClientVars>>

ApiNext ==
  \/ CallerNewPlain
  \/ CallerNewWithMods
  \/ StoreSetOp
  \/ ApiSingle
  \/ ApiList

ApiInit == InitWith(FixedIP(TwoPorts), {}, {0})

ApiSpec == ApiInit /\ [][ApiNext]_vars

(***************************************************************************)
(* The whole program together with requests to the API server, whose      *)
(* handlers call Get and GetAll on the store the workers Set.              *)
(***************************************************************************)
ServedNext ==
  \/ Next
  \/ ApiSingle
  \/ ApiList

ServedInit ==
  \E c \in {DetectWithFallback(OnePort), FixedIP(OnePort)} :
    InitWith(c, {}, {0})

ServedSpec == ServedInit /\ [][ServedNext]_vars

(***************************************************************************)
(* A writer that never touches r's mods elements after Set, and a reader   *)
(* that changes what Get returned to it.                                   *)
(***************************************************************************)
ReaderNext ==
  \/ CallerNewPlain
  \/ CallerNewWithMods
  \/ StoreSetOp
  \/ StoreGetOp
  \/ ReaderSetPlayers
  \/ ReaderSetModName

ReaderInit == InitWith(FixedIP(TwoPorts), {"reader"}, PlayerCounts)

ReaderSpec == ReaderInit /\ [][ReaderNext]_vars

(***************************************************************************)
(* A client of ifconfig.Client's cache: SetAddress and GetAddress on a new *)
(* client whose Run is not started.                                        *)
(***************************************************************************)
CacheArgs == {NoIP, StaticIP} \cup DetectableIPs

\* c.SetAddress(ip): the function has no result.
CacheSetAddress ==
  /\ Len(setLog) < MaxSets
  /\ \E ip \in CacheArgs :
       /\ address' = SetAddress(address, ip)
       /\ setLog' = Append(setLog, ip)
  /\ setRet' = NoResult
  /\ UNCHANGED gotAddr
  /\ UNCHANGED <<byPort, programVars, requestVars, storeClientVars, apiVars>>

\* c.GetAddress()
CacheGetAddress ==
  /\ gotAddr' = GetAddress
  /\ gotAddr' # gotAddr
  /\ UNCHANGED <<address, setLog, setRet>>
  /\ UNCHANGED <<byPort, programVars, requestVars, storeClientVars, apiVars>>

CacheNext ==
  \/ CacheSetAddress
  \/ CacheGetAddress

\* ifconfig.New: the cache is empty.
CacheInit == InitWith(DetectNoFallback(OnePort), {}, {0})

CacheSpec == CacheInit /\ [][CacheNext]_vars

(***************************************************************************)
(* The HTTP request metrics.  A call of defaultClient.Query or of          *)
(* ifconfig.Client.Get meets a world w: which step of the request fails    *)
(* and how, the status code of the response and what its body holds.       *)
(***************************************************************************)
MaxRequests == 2

ErrorNone == "none"
ErrorTimeout == "timeout"
ErrorConnectionRefused == "connection_refused"
ErrorStatus4xx == "status_4xx"
ErrorStatus5xx == "status_5xx"
ErrorDecode == "decode_error"
ErrorUnknown == "unknown"

\* Errors: nil; a *net.OpError whose Timeout() is true; a *net.OpError of a
\* refused connection; context.DeadlineExceeded outside a net.OpError; any
\* other error.
NilErr == "nil"
TransportErrors == {"op timeout", "op connection refused", "deadline exceeded", "other"}
StatusCodes == {200, 204, 302, 404, 503}

ClassifyError(err, statusCode) ==
  IF err = NilErr
    THEN IF statusCode >= 200 /\ statusCode < 300 THEN ErrorNone
         ELSE IF statusCode >= 400 /\ statusCode < 500 THEN ErrorStatus4xx
         ELSE IF statusCode >= 500 THEN ErrorStatus5xx
         ELSE ErrorUnknown
  ELSE IF err = "op timeout" THEN ErrorTimeout
  ELSE IF err = "op connection refused" THEN ErrorConnectionRefused
  ELSE IF err = "deadline exceeded" THEN ErrorTimeout
  ELSE IF statusCode >= 400 /\ statusCode < 500 THEN ErrorStatus4xx
  ELSE IF statusCode >= 500 THEN ErrorStatus5xx
  ELSE ErrorUnknown

\* if c.recorder != nil { c.recorder.RecordRequest(ctx, host, statusCode,
\* errType, ...) }: the RecordRequest calls the statement makes.
Record(on, host, statusCode, errType) ==
  IF on THEN <<[host |-> host, status_code |-> statusCode, error |-> errType]>>
  ELSE << >>

\* What a call returns to its caller and the RecordRequest calls it made.
Returned(err, events) == [err |-> err, events |-> events]

\* A Query that returns the error of the API's body without recording it.
QueryApiErrorUnrecorded(on, w) ==
  IF w.build # NilErr
    THEN Returned("build endpoint", Record(on, "dzsa", 0, ClassifyError(w.build, 0)))
  ELSE IF w.newreq # NilErr
    THEN Returned("create request", Record(on, "dzsa", 0, ClassifyError(w.newreq, 0)))
  ELSE IF w.do # NilErr
    THEN Returned("do request", Record(on, "dzsa", 0, ClassifyError(w.do, 0)))
  ELSE IF w.status # 200
    THEN Returned("unexpected status code",
                  Record(on, "dzsa", w.status, ClassifyError(NilErr, w.status)))
  ELSE IF w.read # NilErr
    THEN Returned("read response", Record(on, "dzsa", w.status, ErrorDecode))
  ELSE IF w.body = "not json"
    THEN Returned("decode response", Record(on, "dzsa", w.status, ErrorDecode))
  ELSE IF w.body = "error key"
    THEN Returned("api error", << >>)
  ELSE IF w.body = "other shape"
    THEN Returned("unmarshal response", Record(on, "dzsa", w.status, ErrorDecode))
  ELSE Returned(NilErr, Record(on, "dzsa", w.status, ErrorNone))

\* defaultClient.Query in world w, with a recorder (on) or without.
Query(on, w) ==
  IF w.build # NilErr
    THEN Returned("build endpoint", Record(on, "dzsa", 0, ClassifyError(w.build, 0)))
  ELSE IF w.newreq # NilErr
    THEN Returned("create request", Record(on, "dzsa", 0, ClassifyError(w.newreq, 0)))
  ELSE IF w.do # NilErr
    THEN Returned("do request", Record(on, "dzsa", 0, ClassifyError(w.do, 0)))
  ELSE IF w.status # 200
    THEN Returned("unexpected status code",
                  Record(on, "dzsa", w.status, ClassifyError(NilErr, w.status)))
  ELSE IF w.read # NilErr
    THEN Returned("read response", Record(on, "dzsa", w.status, ErrorDecode))
  ELSE IF w.body = "not json"
    THEN Returned("decode response", Record(on, "dzsa", w.status, ErrorDecode))
  ELSE IF w.body = "error key"
    THEN Returned("api error", Record(on, "dzsa", w.status, ErrorStatus4xx))
  ELSE IF w.body = "other shape"
    THEN Returned("unmarshal response", Record(on, "dzsa", w.status, ErrorDecode))
  ELSE Returned(NilErr, Record(on, "dzsa", w.status, ErrorNone))

\* ifconfig.Client.Get in world w, with a recorder (on) or without.  The URL
\* is a constant or c.BaseURL and is not parsed before NewRequest; the body
\* is read by the decoder.
Get(on, w) ==
  IF w.newreq # NilErr
    THEN Returned("new request", Record(on, "ifconfig", 0, ClassifyError(w.newreq, 0)))
  ELSE IF w.do # NilErr
    THEN Returned("do", Record(on, "ifconfig", 0, ClassifyError(w.do, 0)))
  ELSE IF w.status # 200
    THEN Returned("unexpected status code",
                  Record(on, "ifconfig", w.status, ClassifyError(NilErr, w.status)))
  ELSE IF w.read # NilErr \/ w.body = "not json"
    THEN Returned("decode", Record(on, "ifconfig", w.status, ErrorDecode))
  ELSE Returned(NilErr, Record(on, "ifconfig", w.status, ErrorNone))

\* The world in which every step succeeds, and the worlds that differ from
\* it in one respect.
OKWorld ==
  [build |-> NilErr, newreq |-> NilErr, do |-> NilErr, status |-> 200,
   read |-> NilErr, body |-> "ok"]

Worlds ==
  {OKWorld}
    \cup {[OKWorld EXCEPT !.build = "other"], [OKWorld EXCEPT !.newreq = "other"],
          [OKWorld EXCEPT !.read = "other"]}
    \cup {[OKWorld EXCEPT !.do = e] : e \in TransportErrors}
    \cup {[OKWorld EXCEPT !.status = s] : s \in StatusCodes}
    \cup {[OKWorld EXCEPT !.body = b] : b \in {"not json", "error key", "other shape", "empty"}}

\* An instrument after one more measurement with the attribute set attrs.
InstrumentAdd(inst, attrs) ==
  [a \in (DOMAIN inst) \cup {attrs} |->
     IF a = attrs THEN (IF a \in DOMAIN inst THEN inst[a] ELSE 0) + 1 ELSE inst[a]]

\* otelRecorder.RecordRequest for each call of events, in order: the counter
\* afterwards.
RECURSIVE CounterAfter(_, _)
CounterAfter(counter, events) ==
  IF events = << >> THEN counter
  ELSE CounterAfter(InstrumentAdd(counter, Head(events)), Tail(events))

\* The same for the histogram, whose attributes are host and status_code.
RECURSIVE HistogramAfter(_, _)
HistogramAfter(histogram, events) ==
  IF events = << >> THEN histogram
  ELSE HistogramAfter(
         InstrumentAdd(histogram, [host |-> Head(events).host,
                                   status_code |-> Head(events).status_code]),
         Tail(events))

\* The measurements of an instrument whose host attribute is host.
RECURSIVE InstrumentTotal(_, _, _)
InstrumentTotal(inst, attrs, host) ==
  IF attrs = {} THEN 0
  ELSE LET a == CHOOSE x \in attrs : TRUE
       IN (IF a.host = host THEN inst[a] ELSE 0)
            + InstrumentTotal(inst, attrs \ {a}, host)

\* The calls of the client of host in the log.
CallsOf(log, host) == Len(SelectSeq(log, LAMBDA c : c.host = host))

RequestReturn(host, w, r) ==
  /\ requestCount' = CounterAfter(requestCount, r.events)
  /\ requestLatency' = HistogramAfter(requestLatency, r.events)
  /\ reqLog' = Append(reqLog, [host |-> host, world |-> w, err |-> r.err,
                               events |-> r.events])
  /\ UNCHANGED recorder
  /\ UNCHANGED <<address, byPort, programVars, storeClientVars, cacheClientVars, apiVars>>

\* dzsaClient.Query(ctx, ip, port)
ClientQuery ==
  /\ Len(reqLog) < MaxRequests
  /\ \E w \in Worlds : RequestReturn("dzsa", w, Query(recorder, w))

\* ifconfigClient.Get(ctx)
IfconfigGet ==
  /\ Len(reqLog) < MaxRequests
  /\ \E w \in Worlds : RequestReturn("ifconfig", w, Get(recorder, w))

RequestNext ==
  \/ ClientQuery
  \/ IfconfigGet

\* client.New and ifconfig.New, with a recorder or with nil.
RequestInit ==
  /\ InitProgram(FixedIP(OnePort), {}, {0})
  /\ valIn = ConfigFileOf(FixedIP(OnePort))
  /\ valErr = Validate(ConfigFileOf(FixedIP(OnePort)))
  /\ recorder \in BOOLEAN

RequestSpec == RequestInit /\ [][RequestNext]_vars

(***************************************************************************)
(* Properties                                                              *)
(***************************************************************************)

\* C1: in detect-IP mode, when the ifconfig loop observes the cached address
\* change from a non-empty value to a different one, then, while no signal
\* arrives, every port worker eventually performs a sync attempt whose
\* GetAddress reads the new address (or a later one), whatever the worker
\* was doing when the change occurred and without any tick of its ticker
\* being assumed.  (stale[i] is set for every worker by the change and
\* cleared by the worker's next GetAddress.)
C1_ChangeReachesEveryWorker ==
  \A i \in AllWorkers : (i \in Workers /\ stale[i]) ~> (~stale[i])

\* The change was observed while a worker was in the middle of a sync that
\* had already read the old address, and its trigger is now buffered.
C1_ChangeWhileSyncing ==
  \E i \in Workers :
    /\ stale[i]
    /\ wPC[i] = "query"
    /\ triggerChans[i] = 1

\* C2: every sync attempt a worker performs in answer to a trigger reads the
\* address of the latest successful detection, never the address the cache
\* held before the change: whenever a trigger is buffered or a worker has
\* received one and has not yet read the cache, the cache already holds
\* that address, and a trigger sync either queries with it or is abandoned
\* in its jitter wait because the context was cancelled.
C2_TriggerSyncUsesNewAddress ==
  /\ [](\A i \in AllWorkers :
          (i \in Workers /\ (triggerChans[i] > 0 \/
                             (wCause[i] = "trigger" /\ wPC[i] = "jitter")))
            => (want[i] # NoIP /\ address = want[i]))
  /\ [][\A i \in AllWorkers :
          (i \in Workers /\ wCause[i] = "trigger" /\ wPC[i] = "jitter"
                         /\ wPC'[i] # "jitter")
            => \/ wPC'[i] = "query" /\ wIP'[i] = want[i]
               \/ wPC'[i] = "select" /\ cancelled]_vars

\* A worker is querying in answer to a trigger, with the address of the
\* latest detection, while the other worker still holds the address it read
\* before the change.
C2_TriggerSyncQuerying ==
  \E i \in Workers, j \in Workers :
    /\ wCause[i] = "trigger"
    /\ wPC[i] = "query"
    /\ wIP[i] = want[0]
    /\ wPC[j] = "query"
    /\ wIP[j] \in DetectableIPs
    /\ wIP[j] # want[0]

\* C3: a worker that receives a trigger while waiting performs one sync
\* attempt and restarts its ticker when that attempt returns: a tick it
\* finds ready at its select came due a full period after the latest
\* trigger sync returned, also when the old period ended while the trigger
\* sync was running.
C3_TickOnlyAfterFullInterval ==
  \A i \in Workers :
    /\ (wPC[i] = "select" /\ tickC[i]) => fullSince[i]
    /\ (wPC[i] # "select" /\ wCause[i] = "tick") => fullSince[i]
    /\ wPC[i] \in {"jitter", "query"} <=> wCause[i] # "none"

\* The old period ended while a trigger sync was running.
C3_OldTimerDueDuringTriggerSync ==
  \E i \in Workers :
    /\ wCause[i] = "trigger"
    /\ wPC[i] = "query"
    /\ tickC[i]

\* C4: a trigger channel never holds more than one element, and it holds
\* exactly one when one or more sends were attempted since its last
\* receive: a send on a full channel is dropped, so two sends before a
\* receive leave one trigger, hence one trigger sync.
C4_AtMostOnePendingTrigger ==
  \A i \in Workers :
    /\ triggerChans[i] <= 1
    /\ triggerChans[i] = IF sentSince[i] > 0 THEN 1 ELSE 0

\* Two sends on one channel before its worker received.
C4_TwoSendsOnePending ==
  \E i \in Workers :
    /\ sentSince[i] = 2
    /\ triggerChans[i] = 1

\* The onChanged calls a sequence of detection outcomes calls for: one for
\* every successful detection whose address differs from the non-empty
\* address the previous successful detections left, with (previous, new).
RECURSIVE CallbacksFor(_, _, _)
CallbacksFor(log, k, prev) ==
  IF k > Len(log) THEN << >>
  ELSE LET o     == log[k]
           ok    == o \in DetectableIPs
           rest  == CallbacksFor(log, k + 1, IF ok THEN o ELSE prev)
       IN IF ok /\ prev # NoIP /\ prev # o
            THEN <<[at |-> k, old |-> prev, new |-> o]>> \o rest
            ELSE rest

\* C5: for every sequence of detection outcomes, onChanged has been called
\* exactly for the successful detections whose address differs from the
\* non-empty address previously cached, with (previous, new), in order; for
\* A, A, B it has been called once, with (A, B), at the third call.
C5_CallbackExactlyOnChange ==
  /\ cbLog = CallbacksFor(probeLog, 1, NoIP)
  /\ probeLog = <<"1.1.1.1", "1.1.1.1", "2.2.2.2">>
       => cbLog = <<[at |-> 3, old |-> "1.1.1.1", new |-> "2.2.2.2"]>>

\* The detection outcomes were A, A, B and the callback has run.
C5_SameSameChanged ==
  /\ probeLog = <<"1.1.1.1", "1.1.1.1", "2.2.2.2">>
  /\ Len(cbLog) = 1
  /\ ifPC = "wait"

\* C6: a detection that fills the empty cache calls no callback and sends no
\* trigger, and a worker at its select starts a sync only by receiving a
\* tick or a trigger.
C6_FirstPopulationIsNoChange ==
  [][/\ (address = NoIP /\ address' # NoIP)
          => (cbLog' = cbLog /\ triggerChans' = triggerChans /\ ifPC' = "wait")
     /\ \A i \in AllWorkers :
          (i \in Workers /\ wPC[i] = "select" /\ wPC'[i] = "jitter")
            => \/ wCause'[i] = "tick" /\ tickC[i] /\ ~tickC'[i]
               \/ wCause'[i] = "trigger" /\ triggerChans'[i] = triggerChans[i] - 1]_vars

\* The initial fetch failed, the worker skipped its startup sync for lack of
\* an address, and a later detection filled the cache: no callback, no
\* trigger, the worker still waiting.
C6_PopulatedAfterFailure ==
  /\ cfg.ExternalIP = NoIP
  /\ probeLog = <<GetFailed, "1.1.1.1">>
  /\ address = "1.1.1.1"
  /\ cbLog = << >>
  /\ wPC[1] = "select"
  /\ triggerChans[1] = 0
  /\ byPort = << >>
  /\ ~tickC[1]

\* C7: a detection call that fails, initial or periodic, leaves the cached
\* address as it was, calls no callback, sends no trigger, and leaves the
\* loop waiting for its next tick.
C7_FailedDetectionChangesNothing ==
  [][(Len(probeLog') = Len(probeLog) + 1 /\ probeLog'[Len(probeLog')] = GetFailed)
       => /\ address' = address
          /\ cbLog' = cbLog
          /\ triggerChans' = triggerChans
          /\ ifPC' = "wait"]_vars

\* A periodic detection failed after the cache had been filled.
C7_FailedAfterSuccess ==
  /\ Len(probeLog) >= 2
  /\ probeLog[Len(probeLog)] = GetFailed
  /\ probeLog[Len(probeLog) - 1] \in DetectableIPs
  /\ address = probeLog[Len(probeLog) - 1]
  /\ ifPC = "wait"

C9_GetReturnsWhatWasSet ==
  /\ \A port \in DOMAIN setSnap :
       port \notin tainted =>
         LET res == StoreGet(byPort, port)
         IN /\ res.found
            /\ ~res.ptr.nil
            /\ Deep(heap, res.ptr.v) = setSnap[port]
  /\ got.found => got.port \in DOMAIN setSnap

\* Get returned the value set for a port, mods list included, after the
\* caller's r had moved on to another value.
C9_GotStoredValue ==
  /\ got.found
  /\ got.port \in DOMAIN setSnap
  /\ got.port \notin tainted
  /\ got.ptr.v.Mods.len = 1
  /\ Deep(heap, got.ptr.v) = setSnap[got.port]
  /\ callerR # got.ptr.v

\* C10 as stated: after Set(port, &r), no change to r, its fields or the
\* elements of its mods list, changes what Get(port) and GetAll return.
C10_CopyIsolationOnWrite ==
  /\ \A port \in DOMAIN setSnap :
       LET res == StoreGet(byPort, port)
       IN res.found /\ Deep(heap, res.ptr.v) = setSnap[port]
  /\ LET all == StoreGetAll(byPort)
     IN \A k \in DOMAIN all :
          Deep(heap, all[k].Result.v) = setSnap[all[k].Port]

\* C11 as stated: a value Get returned shares nothing with the store: no
\* write of the reader to it, its fields or the elements of its mods list,
\* changes what Get and GetAll return afterwards (the value of the latest
\* Set), and no later Set changes the value the reader holds.
C11_CopyIsolationOnRead ==
  /\ \A port \in DOMAIN setSnap :
       LET res == StoreGet(byPort, port)
       IN res.found /\ Deep(heap, res.ptr.v) = setSnap[port]
  /\ LET all == StoreGetAll(byPort)
     IN \A k \in DOMAIN all :
          Deep(heap, all[k].Result.v) = setSnap[all[k].Port]
  /\ got.found => Deep(heap, got.ptr.v) = gotSnap

\* C12: Set with a port that is not configured, or with a nil result,
\* changes nothing: the step leaves the store, and with it what GetAll and
\* every Get return, as it was; the store holds entries for configured
\* ports only.
C12_InvalidSetIsNoOp ==
  /\ [](DOMAIN byPort \subseteq StorePorts)
  /\ [][(lastSet' # lastSet \/ byPort' # byPort) /\
         (lastSet'.nil \/ lastSet'.port \notin StorePorts)
           => /\ byPort' = byPort
              /\ StoreGetAll(byPort') = StoreGetAll(byPort)
              /\ \A port \in ClientPorts :
                   StoreGet(byPort', port) = StoreGet(byPort, port)]_vars

\* The store holds a value for a port, and the latest Set, made with another
\* value of r, named a port that is not configured.
C12_SetOfUnconfiguredPort ==
  /\ ~lastSet.nil
  /\ lastSet.port \notin StorePorts
  /\ byPort # << >>
  /\ \A p \in DOMAIN byPort : byPort[p] # callerR

\* C13: in whatever order the map is visited, GetAll returns one entry for
\* every configured port that has data and no other, each with the stored
\* value, strictly ascending by port, and the same sequence every time
\* while nothing is written; with ports 1000 and 2000, once both have data
\* it is 1000's result followed by 2000's.
C13_GetAllSortedAndExact ==
  /\ \A order \in MapOrders(byPort) :
       LET all == GetAllIn(byPort, order)
       IN /\ {all[k].Port : k \in DOMAIN all} = (DOMAIN byPort) \cap StorePorts
          /\ Len(all) = Cardinality((DOMAIN byPort) \cap StorePorts)
          /\ \A k \in DOMAIN all : all[k].Result = Ptr(byPort[all[k].Port])
          /\ \A k \in DOMAIN all : k > 1 => all[k - 1].Port < all[k].Port
          /\ all = StoreGetAll(byPort)
  /\ DOMAIN byPort = {1000, 2000}
       => StoreGetAll(byPort) = <<[Port |-> 1000, Result |-> Ptr(byPort[1000])],
                                 [Port |-> 2000, Result |-> Ptr(byPort[2000])]>>

\* Both workers have returned from a sync that stored a result, and are
\* waiting.
C13_BothPortsSynced ==
  /\ DOMAIN byPort = {1000, 2000}
  /\ \A i \in Workers : wPC[i] = "select"
  /\ byPort[1000].Name = 1000
  /\ byPort[2000].Name = 2000

\* C14: Get returns found exactly for a configured port for which a Set has
\* stored a value; for every other port, configured without data or not
\* configured, it returns (nil, false).
C14_GetFoundIffConfiguredWithData ==
  /\ \A port \in ClientPorts :
       LET res == StoreGet(byPort, port)
       IN /\ res.found <=> (port \in StorePorts /\ port \in DOMAIN setSnap)
          /\ res.found <=> ~res.ptr.nil
  /\ got.found => (got.port \in StorePorts /\ got.port \in DOMAIN setSnap)
  /\ got.found <=> ~got.ptr.nil

\* Get was called for a configured port that has no data while the other
\* configured port has, and returned (nil, false).
C14_GetOfPortWithoutData ==
  /\ ~got.found
  /\ got.port \in StorePorts
  /\ got.port \notin DOMAIN setSnap
  /\ setSnap # << >>

\* C15: when a worker's first dzsa.Query fails and its second succeeds, Get
\* for its port returns not found in every state up to the return of the
\* second call, and from then until another call returns it returns found
\* with exactly the result of the second call.
C15_FoundOnlyAfterFirstSuccess ==
  \A i \in Workers :
    LET res == StoreGet(byPort, Ports[i])
    IN /\ (qLog[i] = << >> \/ qLog[i] = <<QueryFailed>>) => ~res.found
       /\ (Len(qLog[i]) = 2 /\ qLog[i][1].err /\ ~qLog[i][2].err)
            => /\ res.found
               /\ res.ptr.v = QueryResult(Ports[i], qLog[i][2].players)

\* The first call of a worker failed and its second returned a result with
\* a player.
C15_FailedThenSucceeded ==
  \E i \in Workers :
    /\ qLog[i] = <<QueryFailed, QueryOK(1)>>
    /\ wPC[i] = "select"

\* C16: GET /api/v1/servers/<port> answers a port that is not configured
\* and a configured port that has no data with the same response, 404 and
\* the same header and body, and answers 200 only for a configured port
\* that has data.
C16_NotFoundIsUniform ==
  /\ \A s1 \in Suffixes :
       LET port == Atoi(s1)
           out  == SingleHandler(byPort, heap, "GET", s1)
       IN /\ (port.ok /\ port.n \notin StorePorts) => out = NotFound
          /\ (port.ok /\ port.n \in StorePorts \ DOMAIN byPort) => out = NotFound
          /\ out.status = 200 => (port.ok /\ port.n \in StorePorts \cap DOMAIN byPort)
  /\ (resp.route = "single" /\ resp.out.status = 200)
       => (Atoi(resp.suffix).ok /\ Atoi(resp.suffix).n \in StorePorts \cap DOMAIN byPort)

\* A request for a port that is not configured was answered 404 while one
\* configured port has data and the other has none.
C16_UnconfiguredPortNotFound ==
  /\ resp.route = "single"
  /\ resp.method = "GET"
  /\ resp.suffix = <<"3", "0", "0", "0">>
  /\ resp.out = NotFound
  /\ DOMAIN byPort = {1000}

\* C17: the response to GET /api/v1/servers is the encoding of exactly the
\* sequence GetAll returns at the time of the call: the same entries in the
\* same ascending order of port, nothing added, dropped or reordered.
C17_ListReflectsGetAll ==
  [][(resp' # resp /\ resp'.route = "list" /\ resp'.method = "GET")
       => LET all == StoreGetAll(byPort)
          IN /\ resp'.out.status = 200
             /\ Len(resp'.out.body.servers) = Len(all)
             /\ \A k \in DOMAIN all :
                  /\ resp'.out.body.servers[k].port = all[k].Port
                  /\ resp'.out.body.servers[k].result = Deep(heap, all[k].Result.v)]_vars

\* The list was served while both ports had data.
C17_ListOfTwo ==
  /\ resp.route = "list"
  /\ resp.out.status = 200
  /\ Len(resp.out.body.servers) = 2
  /\ DOMAIN byPort = {1000, 2000}

\* C18: main goes on to wg.Wait() only after the signal context is done,
\* and returns only when every port worker has returned: in no reachable
\* state has main returned while a worker is still running.
C18_ExitOnlyAfterWorkersDone ==
  /\ mainPC \in {"wgwait", "exit"} => cancelled
  /\ mainPC = "exit" => \A i \in Workers : wPC[i] = "done"

\* main has returned after the workers had stored results for both ports.
C18_ExitedAfterSyncs ==
  /\ mainPC = "exit"
  /\ DOMAIN byPort = {1000, 2000}

\* C19 as stated: when main has returned, every port worker and the
\* ifconfig loop have returned.
C19_ExitJoinsWatcherToo ==
  mainPC = "exit" =>
    /\ \A i \in Workers : wPC[i] = "done"
    /\ cfg.DetectIP => ifPC = "done"

\* C19, as the code has it: the wait group covers the port workers only.
\* Once main has returned no worker takes a step and the store does not
\* change; the ifconfig loop, which was given the same cancelled context,
\* is not waited for.
C19_ExitJoinsWorkersOnly ==
  /\ [](mainPC = "exit" => (cancelled /\ \A i \in Workers : ~Running(i)))
  /\ [][mainPC = "exit" => (wPC' = wPC /\ wIP' = wIP /\ byPort' = byPort)]_vars

\* main has returned while the ifconfig loop is inside a detection call.
C19_ExitedWhileWatcherProbes ==
  /\ mainPC = "exit"
  /\ ifPC = "get"
  /\ \A i \in Workers : wPC[i] = "done"

RECURSIVE LastDetected(_, _)
LastDetected(log, k) ==
  IF k = 0 THEN NoIP
  ELSE IF log[k] \in DetectableIPs THEN log[k]
  ELSE LastDetected(log, k - 1)

\* C21: Run makes its first detection call before it ever waits for its
\* ticker; when that call came back with an address, the cache holds the
\* address of the latest successful call from then on (the initial one's
\* while no later call succeeded); and the loop ends only by cancellation,
\* whatever the initial call came back with.
C21_InitialFetchFirstAndKept ==
  /\ ifPC \in {"wait", "get", "fanout", "done"} => Len(probeLog) >= 1
  /\ (Len(probeLog) >= 1 /\ probeLog[1] \in DetectableIPs)
       => /\ address = LastDetected(probeLog, Len(probeLog))
          /\ (\A k \in 2..Len(probeLog) : probeLog[k] \notin DetectableIPs)
               => address = probeLog[1]
  /\ ifPC = "done" => cancelled

\* The initial fetch succeeded, the two periodic calls after it came back
\* empty and failed, and the cache still holds the initial address.
C21_InitialAddressKept ==
  /\ probeLog = <<"1.1.1.1", NoIP, GetFailed>>
  /\ address = "1.1.1.1"
  /\ ifPC = "wait"
  /\ ~cancelled

\* What the documentation of the configuration file requires of it.
ServerPortsOf(c) == {c.Servers[k].Port : k \in DOMAIN c.Servers}

WellFormed(c) ==
  /\ c.LogPath # ""
  /\ ~c.DetectIP => c.ExternalIP # ""
  /\ c.Servers # << >>
  /\ \A k \in DOMAIN c.Servers :
       /\ c.Servers[k].Name # ""
       /\ c.Servers[k].Port \in 1..65535
  /\ \A j, k \in DOMAIN c.Servers : j # k => c.Servers[j].Port # c.Servers[k].Port
  /\ (~c.API.nil /\ c.API.v # 0) => c.API.v \in 1..65535

C24_NoQueryWithoutAddress ==
  /\ [](\A i \in Workers : wPC[i] = "query" => wIP[i] # NoIP)
  /\ [][\A i \in AllWorkers :
          (i \in Workers /\ wPC[i] = "jitter" /\ wPC'[i] # "jitter")
            => /\ wPC'[i] = "query"
                    => /\ wIP'[i] # NoIP
                       /\ wIP'[i] = IF address # NoIP THEN address ELSE cfg.ExternalIP
               /\ (address = NoIP /\ cfg.ExternalIP = NoIP)
                    => (wPC'[i] = "select" /\ byPort' = byPort)]_vars

\* Detect-IP mode without external_ip, no detection has succeeded yet: the
\* worker skipped its startup sync and is waiting, the store is empty.
C24_StartupSyncSkipped ==
  /\ cfg.DetectIP
  /\ cfg.ExternalIP = NoIP
  /\ address = NoIP
  /\ ifPC = "wait"
  /\ ~cancelled
  /\ \A i \in Workers : wPC[i] = "select"
  /\ byPort = << >>

\* C25: a worker never has more than one syncOnce call in progress, and one
\* is in progress exactly while the worker is in its jitter wait or inside
\* dzsa.Query; while it is, a trigger buffered for the worker is not
\* received and a tick that is ready is not received either (it stays ready,
\* or is dropped by the Reset that ends a trigger sync): both are served
\* only by the select the worker returns to.
C25_SyncAttemptsNeverOverlap ==
  /\ [](\A i \in Workers :
          /\ inFlight[i] \in {0, 1}
          /\ inFlight[i] = 1 <=> wPC[i] \in {"jitter", "query"})
  /\ [][\A i \in AllWorkers :
          (i \in Workers /\ inFlight[i] >= 1)
            => /\ inFlight'[i] <= inFlight[i]
               /\ triggerChans'[i] >= triggerChans[i]
               /\ (tickC[i] /\ ~tickC'[i])
                    => (wCause[i] = "trigger" /\ inFlight'[i] = 0)]_vars

\* A trigger and a tick are both ready while the worker is inside dzsa.Query.
C25_TickAndTriggerReadyMidSync ==
  \E i \in Workers :
    /\ wPC[i] = "query"
    /\ inFlight[i] = 1
    /\ tickC[i]
    /\ triggerChans[i] = 1

\* C26: with the first worker stuck inside dzsa.Query for good, or failing,
\* or skipping, the second worker is started all the same, every sync
\* attempt it begins completes, and what it stores does not wait for the
\* first worker; its steps are never disabled by the other worker's state.
C26_SecondWorkerUnaffected ==
  /\ [](mainPC = "start" => <>(wPC[2] = "select"))
  /\ (wPC[2] \in {"jitter", "query"}) ~> (wPC[2] = "select")
  /\ [](wPC[2] = "query" => ENABLED SyncQueryOK(2))

\* Both workers are inside dzsa.Query at the same time, the first for good;
\* the second has already stored a result while the first has none.
C26_BothSyncingAtOnce ==
  /\ wPC[1] = "query"
  /\ wPC[2] = "query"
  /\ wCause[2] = "tick"
  /\ 2000 \in DOMAIN byPort
  /\ 1000 \notin DOMAIN byPort

\* C27: a dzsa.Query that fails leaves the worker at its select, and the
\* store, the gauge, the cached address and every trigger channel as they
\* were; it makes no tick ready, so nothing is scheduled in its place; and a
\* worker at its select starts its next attempt only by receiving a tick or
\* a trigger.
C27_FailedQueryChangesNothing ==
  [][\A i \in AllWorkers :
       /\ (i \in Workers /\ qLog'[i] = Append(qLog[i], QueryFailed))
            => /\ wPC'[i] = "select"
               /\ inFlight'[i] = 0
               /\ byPort' = byPort
               /\ gauge' = gauge
               /\ address' = address
               /\ triggerChans' = triggerChans
               /\ \A j \in Workers : tickC'[j] => tickC[j]
       /\ (i \in Workers /\ wPC[i] = "select" /\ wPC'[i] \in {"jitter", "query"})
            => \/ tickC[i] /\ ~tickC'[i] /\ wCause'[i] = "tick"
               \/ triggerChans'[i] = triggerChans[i] - 1 /\ wCause'[i] = "trigger"]_vars

\* A worker's query failed after an earlier one had succeeded: the worker is
\* waiting and the earlier result is still stored.
C27_FailedAfterStoredResult ==
  \E i \in Workers :
    /\ qLog[i] = <<QueryOK(1), QueryFailed>>
    /\ wPC[i] = "select"
    /\ StoreGet(byPort, Ports[i]).found
    /\ StoreGet(byPort, Ports[i]).ptr.v.Players = 1
    /\ ~tickC[i]
    /\ triggerChans[i] = 0

\* C28 as stated: once the signal context is done, a worker waiting at its
\* select enters no new syncOnce call, whether or not a tick or a trigger is
\* ready.
C28_NoSyncStartsAfterCancellation ==
  [][\A i \in AllWorkers :
       (i \in Workers /\ cancelled /\ wPC[i] = "select")
         => inFlight'[i] <= inFlight[i]]_vars

\* C29: onIPChanged can always take its next step, whatever the workers are
\* doing (syncing, returned, or with a trigger already buffered); it visits
\* the channels once each in order and then Run is back at its wait; each
\* visit leaves one trigger in the channel it visited; and when the fan-out
\* ends every channel holds a trigger except those whose worker has received
\* since the fan-out sent to them.
C29_FanOutNeverBlocks ==
  /\ [](ifPC = "fanout" => (ifIdx \in Workers /\ ENABLED OnIPChangedSend))
  /\ [][(ifPC = "fanout" /\ <<ifPC, ifIdx>>' # <<ifPC, ifIdx>>)
          => /\ triggerChans'[ifIdx] = 1
             /\ \A j \in Workers : j # ifIdx => triggerChans'[j] = triggerChans[j]
             /\ wPC' = wPC
             /\ IF ifIdx < Len(Ports)
                  THEN ifPC' = "fanout" /\ ifIdx' = ifIdx + 1
                  ELSE /\ ifPC' = "wait"
                       /\ \A j \in Workers : triggerChans'[j] = 1 \/ sentSince'[j] = 0]_vars

\* The fan-out is about to send to a worker that has returned and whose
\* channel is full, while the other worker is inside dzsa.Query.
C29_SendToStoppedWorkerWithPending ==
  /\ ifPC = "fanout"
  /\ ifIdx = 2
  /\ wPC[2] = "done"
  /\ triggerChans[2] = 1
  /\ wPC[1] = "query"

\* C30: for every worker, the store has no entry for its port while none of
\* its dzsa.Query calls has succeeded, and otherwise holds the result of the
\* latest of its calls that succeeded, whatever failed after it and whatever
\* the other workers stored.
C30_StoreHoldsLatestSuccess ==
  \A i \in Workers :
    LET oks == SelectSeq(qLog[i], LAMBDA q : ~q.err)
        res == StoreGet(byPort, Ports[i])
    IN IF oks = << >>
         THEN ~res.found /\ Ports[i] \notin DOMAIN byPort
         ELSE /\ res.found
              /\ res.ptr.v = QueryResult(Ports[i], oks[Len(oks)].players)

\* One worker succeeded twice with different results, the other succeeded
\* and then failed.
C30_TwoWorkersLatestResults ==
  /\ Len(Ports) = 2
  /\ qLog[1] = <<QueryOK(0), QueryOK(1)>>
  /\ qLog[2] = <<QueryOK(0), QueryFailed>>
  /\ byPort[1000].Players = 1
  /\ byPort[2000].Players = 0

\* Whether the store holds the same for a port in two of its states.
SameEntry(s, t, port) ==
  /\ (port \in DOMAIN s) = (port \in DOMAIN t)
  /\ port \in DOMAIN s => s[port] = t[port]

\* C31: the entry of a port is created or overwritten only by the step in
\* which the worker of that port returns from a successful dzsa.Query, with
\* that query's result; no step removes an entry; and a step of a worker,
\* whatever the outcome of its sync, leaves the entries of all other ports
\* as they were.
C31_EntryWrittenOnlyByOwner ==
  [][\A i \in AllWorkers :
       i \in Workers =>
         /\ ~SameEntry(byPort, byPort', Ports[i])
              => /\ wPC[i] = "query" /\ wPC'[i] = "select"
                 /\ Len(qLog'[i]) = Len(qLog[i]) + 1
                 /\ ~qLog'[i][Len(qLog'[i])].err
                 /\ Ports[i] \in DOMAIN byPort'
                 /\ byPort'[Ports[i]] = QueryResult(Ports[i], qLog'[i][Len(qLog'[i])].players)
         /\ wPC'[i] # wPC[i]
              => \A j \in Workers : j # i => SameEntry(byPort, byPort', Ports[j])]_vars

\* The second worker has overwritten its entry while the first, whose only
\* sync failed, has none.
C31_OwnerOverwroteOtherAbsent ==
  /\ Len(Ports) = 2
  /\ qLog[1] = <<QueryFailed>>
  /\ qLog[2] = <<QueryOK(1), QueryOK(0)>>
  /\ 1000 \notin DOMAIN byPort
  /\ 2000 \in DOMAIN byPort
  /\ byPort[2000].Players = 0

\* C32: no step takes an entry out of the store: a port for which Get finds
\* a result has one after every step, be it a failed or skipped sync, a
\* change of the address, a Set with nil or with a port that is not
\* configured; and a Get that follows a Get of the same port that found a
\* result finds one too.
C32_EntriesNeverDeleted ==
  [][/\ \A p \in ClientPorts :
          StoreGet(byPort, p).found => StoreGet(byPort', p).found
     /\ DOMAIN byPort \subseteq DOMAIN byPort'
     /\ (got.found /\ got' # got /\ got'.port = got.port) => got'.found]_vars

\* Get found the result of the port; the worker's second sync has failed, the
\* address has changed and the last Set was a Set with nil for the port: the
\* entry is still there.
C32_StillFoundAfterNoOps ==
  /\ got.found
  /\ got.port = 1000
  /\ qLog[1] = <<QueryOK(0), QueryFailed>>
  /\ lastSet = [port |-> 1000, nil |-> TRUE]
  /\ address = "2.2.2.2"
  /\ StoreGet(byPort, 1000).found

\* C33: with detect_ip off the cached address is the configured external_ip
\* in every state, from before the workers start; ifconfigClient.Run is never
\* started; no trigger channel ever holds a value; and every Query of every
\* worker is made with the configured address.
C33_FixedIPMode ==
  ~cfg.DetectIP =>
    /\ cfg.ExternalIP # NoIP
    /\ address = cfg.ExternalIP
    /\ GetAddress = cfg.ExternalIP
    /\ ifPC = "off"
    /\ probeLog = << >>
    /\ cbLog = << >>
    /\ \A i \in Workers :
         /\ triggerChans[i] = 0
         /\ wCause[i] # "trigger"
         /\ wPC[i] = "query" => wIP[i] = cfg.ExternalIP

\* Fixed-IP mode: one worker has stored a result and synced again with a
\* failure, the other is inside its Query with the configured address.
C33_FixedIPWorkersQuerying ==
  /\ ~cfg.DetectIP
  /\ mainPC = "wait"
  /\ qLog[1] = <<QueryOK(1), QueryFailed>>
  /\ StoreGet(byPort, 1000).found
  /\ wPC[2] = "query"
  /\ wIP[2] = StaticIP
  /\ wCause[2] = "tick"

\* C34: while no cancellation arrives, every sync a worker has started, be
\* it successful, failed or skipped, returns and leaves the worker at its
\* select, and every worker starts a sync again and again, whatever the
\* earlier ones did.
C34_WorkerStaysLive ==
  \A i \in AllWorkers :
    /\ (i \in Workers /\ wPC[i] \in {"jitter", "query"})
         ~> (i \in Workers /\ wPC[i] = "select")
    /\ []<>(i \in Workers => wPC[i] = "jitter")
    /\ []<>(i \in Workers => wPC[i] = "select")
    /\ [](i \in Workers => wPC[i] # "done")

\* No address was ever detected and none is configured, so the startup sync
\* and any other so far were skipped and nothing is stored; the worker has
\* taken the next tick and started another sync.
C34_SyncAfterSkippedSyncs ==
  /\ ~cancelled
  /\ cfg.DetectIP
  /\ cfg.ExternalIP = NoIP
  /\ address = NoIP
  /\ ifPC = "wait"
  /\ byPort = << >>
  /\ wPC[1] = "jitter"
  /\ wCause[1] = "tick"

\* C35: until ifconfigClient.Run is started the cache holds what main put
\* there, the configured address in fixed-IP mode and nothing otherwise, and
\* afterwards only the return of a Get of Run, the initial one or one of the
\* loop, changes it: no step of a worker, no send to a trigger channel, no
\* Set or Get on the store and no API request does.
C35_CacheWrittenOnlyByRun ==
  /\ [](ifPC = "off" =>
          address = IF cfg.DetectIP THEN NoIP ELSE cfg.ExternalIP)
  /\ [][address' # address
          => /\ cfg.DetectIP
             /\ ifPC \in {"init", "get"}
             /\ ifPC' # ifPC
             /\ address' \in DetectableIPs
             /\ UNCHANGED <<workerVars, triggerChans, byPort, resp, mainPC>>]_vars

\* The address was detected while the worker was inside a sync that had
\* resolved the configured fallback, after an earlier sync had stored a
\* result and the API had served it.
C35_DetectedWhileServing ==
  /\ cfg.DetectIP
  /\ address \in DetectableIPs
  /\ wPC[1] = "query"
  /\ wIP[1] = StaticIP
  /\ StoreGet(byPort, 1000).found
  /\ resp # NoRequest
  /\ resp.route = "single"
  /\ resp.out.status = 200

\* C36: no step empties a cache that holds an address, and a Get of Run that
\* comes back without error but with an empty IP changes neither the cache
\* nor the trigger channels and calls no onChanged, exactly as a Get that
\* failed: Run goes back to waiting for its ticker.
C36_NonEmptyStaysNonEmpty ==
  [][/\ address # NoIP => address' # NoIP
     /\ (probeLog' # probeLog /\ probeLog'[Len(probeLog')] \in {NoIP, GetFailed})
          => /\ address' = address
             /\ cbLog' = cbLog
             /\ triggerChans' = triggerChans
             /\ ifPC' = "wait"]_vars

\* Two addresses were detected, the change was reported once, and the Get
\* after that came back with an empty IP: the cache holds the second address.
C36_EmptyAnswerAfterChange ==
  /\ probeLog = <<"1.1.1.1", "2.2.2.2", NoIP>>
  /\ address = "2.2.2.2"
  /\ Len(cbLog) = 1
  /\ ifPC = "wait"

C38_OneEventPerRequest ==
  /\ \A k \in DOMAIN reqLog :
       /\ Len(reqLog[k].events) = IF recorder THEN 1 ELSE 0
       /\ \A e \in DOMAIN reqLog[k].events : reqLog[k].events[e].host = reqLog[k].host
  /\ \A host \in {"dzsa", "ifconfig"} :
       /\ InstrumentTotal(requestCount, DOMAIN requestCount, host)
            = IF recorder THEN CallsOf(reqLog, host) ELSE 0
       /\ InstrumentTotal(requestLatency, DOMAIN requestLatency, host)
            = IF recorder THEN CallsOf(reqLog, host) ELSE 0

\* A Query whose answer held an error key and a Get whose transport timed
\* out: one measurement each.
C38_ApiErrorAndTimeoutRecorded ==
  /\ recorder
  /\ Len(reqLog) = 2
  /\ reqLog[1].host = "dzsa"
  /\ reqLog[1].world.body = "error key"
  /\ reqLog[1].err = "api error"
  /\ reqLog[2].host = "ifconfig"
  /\ reqLog[2].world.do = "op timeout"
  /\ InstrumentTotal(requestCount, DOMAIN requestCount, "dzsa") = 1
  /\ InstrumentTotal(requestCount, DOMAIN requestCount, "ifconfig") = 1

====
